---------------------------- MODULE Spec2Model ----------------------------
(***************************************************************************)
(* The Tea Brewing API (api2spec-fixture-express): four in-memory Map      *)
(* stores (teapots, teas, brews, steeps) behind Express route handlers     *)
(* that validate their input with Zod schemas.  Node runs every handler    *)
(* to completion before the next request is looked at, so each handler is  *)
(* one atomic action; the request an action takes is any request that is   *)
(* in flight at that moment.                                               *)
(***************************************************************************)
EXTENDS Integers, Sequences, FiniteSets, TLC

VARIABLES
    teapots,       \* Map<string, Teapot>, in insertion order
    teas,          \* Map<string, Tea>,    in insertion order
    brews,         \* Map<string, Brew>,   in insertion order
    steeps,        \* Map<string, Steep>,  in insertion order
    clock,         \* the last instant new Date() returned
    issued,        \* number of uuids uuidv4() has issued, per resource type
    req,           \* the request handled last
    res,           \* the response written for it
    steepsCreated  \* history: per brew id, the number of 201s of POST steeps

stores == <<teapots, teas, brews, steeps>>
vars == <<teapots, teas, brews, steeps, clock, issued, req, res, steepsCreated>>

----------------------------------------------------------------------------
(* JSON values.  Every value carries its JSON type, so that a string, a    *)
(* number and null are never confused: <<"str", s>>, <<"num", n>>,         *)
(* <<"null">>.  A string of UUID shape is <<"uuid", n>> (the n-th uuid),   *)
(* an ISO date-time string is <<"time", t>>.  An absent key (undefined) is *)
(* a key that is not in the DOMAIN of the object.                          *)

Null == <<"null">>
S(s) == <<"str", s>>
N(n) == <<"num", n>>
U(n) == <<"uuid", n>>
T(t) == <<"time", t>>

\* a JSON array of the items
Arr(items) == <<"array", items>>


\* the JSON number n + 1/2, which is no integer
Half(n) == <<"half", n>>

IsString(v) == v[1] \in {"str", "uuid", "time"}

\* {...a, ...b}: the keys of b win
Spread(a, b) ==
    [k \in (DOMAIN a) \cup (DOMAIN b) |-> IF k \in DOMAIN b THEN b[k] ELSE a[k]]

----------------------------------------------------------------------------
(* Zod.  A field type is a record; .nullable(), .optional() and            *)
(* .default(d) wrap it as they do in the schemas.                          *)

ZBase(kind) ==
    [kind |-> kind, min |-> 0, max |-> 0, hasMax |-> FALSE, values |-> {},
     nullable |-> FALSE, optional |-> FALSE, hasDefault |-> FALSE,
     default |-> Null]

ZString(lo, hi)  == [ZBase("string") EXCEPT !.min = lo, !.max = hi, !.hasMax = TRUE]
ZInt(lo, hi)     == [ZBase("int") EXCEPT !.min = lo, !.max = hi, !.hasMax = TRUE]
ZPositiveInt     == [ZBase("int") EXCEPT !.min = 1]
ZEnum(vs)        == [ZBase("enum") EXCEPT !.values = vs]
ZUuid            == ZBase("uuid")
ZDatetime        == ZBase("datetime")
ZNullable(t)     == [t EXCEPT !.nullable = TRUE]
ZOptional(t)     == [t EXCEPT !.optional = TRUE]
ZDefault(t, d)   == [t EXCEPT !.hasDefault = TRUE, !.default = d]

\* z.coerce.number().int() with a lower and an upper bound
ZCoerceInt(lo, hi) == [ZBase("coerce") EXCEPT !.min = lo, !.max = hi, !.hasMax = TRUE]

\* z.coerce.number().int().positive()
ZCoercePositiveInt == [ZBase("coerce") EXCEPT !.min = 1]

\* A string of a query is the tuple of its characters; Q(<<"1", "2">>) is
\* ?page=12.
Q(chars) == <<"chars", chars>>

Digit(c) ==
    CASE c = "0" -> 0 [] c = "1" -> 1 [] c = "2" -> 2 [] c = "3" -> 3
      [] c = "4" -> 4 [] c = "5" -> 5 [] c = "6" -> 6 [] c = "7" -> 7
      [] c = "8" -> 8 [] c = "9" -> 9 [] OTHER -> -1

IsDigits(chars) == \A i \in DOMAIN chars : Digit(chars[i]) >= 0

RECURSIVE Decimal(_)
Decimal(chars) ==
    IF chars = <<>> THEN 0
    ELSE 10 * Decimal(SubSeq(chars, 1, Len(chars) - 1)) + Digit(chars[Len(chars)])

NaN == [nan |-> TRUE, integer |-> FALSE, value |-> 0]

\* Number(string), which z.coerce.number() applies to its input, for a
\* string of digits, '-', '.' and letters other than e and x: the empty
\* string is 0, an optional sign before digits with an optional fraction is
\* that number, anything else is NaN.  `integer` is Number.isInteger and
\* `value` the number when it is an integer.
Number(chars) ==
    LET negative == chars # <<>> /\ chars[1] = "-"
        unsigned == IF negative THEN Tail(chars) ELSE chars
        dots == {i \in DOMAIN unsigned : unsigned[i] = "."}
        dot == IF dots = {} THEN Len(unsigned) + 1
               ELSE CHOOSE i \in dots : \A j \in dots : i <= j
        whole == SubSeq(unsigned, 1, dot - 1)
        fraction == SubSeq(unsigned, dot + 1, Len(unsigned))
    IN IF chars = <<>> THEN [nan |-> FALSE, integer |-> TRUE, value |-> 0]
       ELSE IF \/ ~IsDigits(whole)
               \/ ~IsDigits(fraction)
               \/ (whole = <<>> /\ fraction = <<>>)
       THEN NaN
       ELSE [nan |-> FALSE,
             integer |-> \A i \in DOMAIN fraction : fraction[i] = "0",
             value |-> IF negative THEN 0 - Decimal(whole) ELSE Decimal(whole)]

\* the length of a string value; a uuid has 36 characters and
\* toISOString() gives 24
StrLen(v) ==
    CASE v[1] = "str" -> Len(v[2])
      [] v[1] = "uuid" -> 36
      [] v[1] = "time" -> 24

\* does the (defined) value v pass the field type t
ZAccepts(t, v) ==
    IF v = Null THEN t.nullable
    ELSE CASE t.kind = "string" ->
                 /\ IsString(v)
                 /\ StrLen(v) >= t.min
                 /\ StrLen(v) <= t.max
           [] t.kind = "int" ->
                 /\ v[1] = "num"
                 /\ v[2] >= t.min
                 /\ (t.hasMax => v[2] <= t.max)
           [] t.kind = "enum" -> v[1] = "str" /\ v[2] \in t.values
           [] t.kind = "uuid" -> v[1] = "uuid"
           [] t.kind = "datetime" -> v[1] = "time"
           [] t.kind = "coerce" ->
                 /\ v[1] = "chars"
                 /\ ~Number(v[2]).nan
                 /\ Number(v[2]).integer
                 /\ Number(v[2]).value >= t.min
                 /\ (t.hasMax => Number(v[2]).value <= t.max)

\* the keys of the shape whose value in the input is rejected
ZIssues(schema, input) ==
    {k \in DOMAIN schema :
        IF k \in DOMAIN input
        THEN ~ZAccepts(schema[k], input[k])
        ELSE ~(schema[k].optional \/ schema[k].hasDefault)}

\* mutant: unknown keys pass through (z.object(...).passthrough())
ZOutputKeys_Passthrough(schema, input) ==
    (DOMAIN input) \cup {k \in DOMAIN schema : schema[k].hasDefault}

\* the keys of the parsed object: unknown keys are stripped, an absent
\* optional key stays absent, an absent key with a default is filled
ZOutputKeys(schema, input) ==
    {k \in DOMAIN schema : k \in DOMAIN input \/ schema[k].hasDefault}

\* the value parsed for the key k of an accepted input: a coerced field
\* gives the number, every other key the value itself
ZValue(schema, input, k) ==
    IF k \in DOMAIN schema /\ schema[k].kind = "coerce"
    THEN N(Number(input[k][2]).value)
    ELSE input[k]

\* schema.safeParse(input) for a z.object schema and an object input
SafeParse(schema, input) ==
    LET issues == ZIssues(schema, input) IN
    IF issues = {}
    THEN [success |-> TRUE,
          data |-> [k \in ZOutputKeys(schema, input) |->
                       IF k \in DOMAIN input THEN ZValue(schema, input, k)
                       ELSE schema[k].default]]
    ELSE [success |-> FALSE,
          fieldErrors |-> [k \in issues |-> Arr(<<S("Invalid input")>>)]]

----------------------------------------------------------------------------
(* The schemas.                                                            *)

TeapotMaterial ==
    {"ceramic", "cast-iron", "glass", "porcelain", "clay", "stainless-steel"}
TeapotStyle == {"kyusu", "gaiwan", "english", "moroccan", "turkish", "yixing"}
TeaType == {"green", "black", "oolong", "white", "puerh", "herbal", "rooibos"}
CaffeineLevel == {"none", "low", "medium", "high"}
BrewStatus == {"preparing", "steeping", "ready", "served", "cold"}

UuidParamSchema == [id |-> ZUuid]
BrewIdParamSchema == [brewId |-> ZUuid]

\* mutant: the schema of a new teapot also takes an id
CreateTeapotSchema_WithId ==
    [id          |-> ZOptional(ZUuid),
     name        |-> ZString(1, 100),
     material    |-> ZEnum(TeapotMaterial),
     capacityMl  |-> ZInt(1, 5000),
     style       |-> ZDefault(ZEnum(TeapotStyle), S("english")),
     description |-> ZDefault(ZNullable(ZString(0, 500)), Null)]

CreateTeapotSchema ==
    [name        |-> ZString(1, 100),
     material    |-> ZEnum(TeapotMaterial),
     capacityMl  |-> ZInt(1, 5000),
     style       |-> ZDefault(ZEnum(TeapotStyle), S("english")),
     description |-> ZDefault(ZNullable(ZString(0, 500)), Null)]

UpdateTeapotSchema ==
    [name        |-> ZString(1, 100),
     material    |-> ZEnum(TeapotMaterial),
     capacityMl  |-> ZInt(1, 5000),
     style       |-> ZEnum(TeapotStyle),
     description |-> ZNullable(ZString(0, 500))]

PatchTeapotSchema ==
    [name        |-> ZOptional(ZString(1, 100)),
     material    |-> ZOptional(ZEnum(TeapotMaterial)),
     capacityMl  |-> ZOptional(ZInt(1, 5000)),
     style       |-> ZOptional(ZEnum(TeapotStyle)),
     description |-> ZOptional(ZNullable(ZString(0, 500)))]

CreateTeaSchema ==
    [name             |-> ZString(1, 100),
     type             |-> ZEnum(TeaType),
     origin           |-> ZOptional(ZString(0, 100)),
     caffeineLevel    |-> ZDefault(ZEnum(CaffeineLevel), S("medium")),
     steepTempCelsius |-> ZInt(60, 100),
     steepTimeSeconds |-> ZInt(1, 600),
     description      |-> ZDefault(ZNullable(ZString(0, 1000)), Null)]

UpdateTeaSchema ==
    [name             |-> ZString(1, 100),
     type             |-> ZEnum(TeaType),
     origin           |-> ZOptional(ZString(0, 100)),
     caffeineLevel    |-> ZEnum(CaffeineLevel),
     steepTempCelsius |-> ZInt(60, 100),
     steepTimeSeconds |-> ZInt(1, 600),
     description      |-> ZNullable(ZString(0, 1000))]

\* mutant: the patch of a tea takes any positive steeping temperature
PatchTeaSchema_AnyTemperature ==
    [name             |-> ZOptional(ZString(1, 100)),
     type             |-> ZOptional(ZEnum(TeaType)),
     origin           |-> ZOptional(ZString(0, 100)),
     caffeineLevel    |-> ZOptional(ZEnum(CaffeineLevel)),
     steepTempCelsius |-> ZOptional(ZPositiveInt),
     steepTimeSeconds |-> ZOptional(ZInt(1, 600)),
     description      |-> ZOptional(ZNullable(ZString(0, 1000)))]

PatchTeaSchema ==
    [name             |-> ZOptional(ZString(1, 100)),
     type             |-> ZOptional(ZEnum(TeaType)),
     origin           |-> ZOptional(ZString(0, 100)),
     caffeineLevel    |-> ZOptional(ZEnum(CaffeineLevel)),
     steepTempCelsius |-> ZOptional(ZInt(60, 100)),
     steepTimeSeconds |-> ZOptional(ZInt(1, 600)),
     description      |-> ZOptional(ZNullable(ZString(0, 1000)))]

CreateBrewSchema ==
    [teapotId         |-> ZUuid,
     teaId            |-> ZUuid,
     waterTempCelsius |-> ZOptional(ZInt(60, 100)),
     notes            |-> ZDefault(ZNullable(ZString(0, 500)), Null)]

\* mutant: the patch schema of a brew also takes the referential fields
PatchBrewSchema_Referential ==
    [status           |-> ZOptional(ZEnum(BrewStatus)),
     notes            |-> ZOptional(ZNullable(ZString(0, 500))),
     completedAt      |-> ZOptional(ZNullable(ZDatetime)),
     teapotId         |-> ZOptional(ZUuid),
     waterTempCelsius |-> ZOptional(ZInt(60, 100))]

PatchBrewSchema ==
    [status      |-> ZOptional(ZEnum(BrewStatus)),
     notes       |-> ZOptional(ZNullable(ZString(0, 500))),
     completedAt |-> ZOptional(ZNullable(ZDatetime))]

CreateSteepSchema ==
    [durationSeconds |-> ZPositiveInt,
     rating          |-> ZDefault(ZNullable(ZInt(1, 5)), Null),
     notes           |-> ZDefault(ZNullable(ZString(0, 200)), Null)]


\* page and limit of every list route
PaginationQuerySchema ==
    [page  |-> ZDefault(ZCoercePositiveInt, N(1)),
     limit |-> ZDefault(ZCoerceInt(1, 100), N(20))]

TeapotQuerySchema ==
    Spread(PaginationQuerySchema,
           [material |-> ZOptional(ZEnum(TeapotMaterial)),
            style    |-> ZOptional(ZEnum(TeapotStyle))])

TeaQuerySchema ==
    Spread(PaginationQuerySchema,
           [type          |-> ZOptional(ZEnum(TeaType)),
            caffeineLevel |-> ZOptional(ZEnum(CaffeineLevel))])

BrewQuerySchema ==
    Spread(PaginationQuerySchema,
           [status   |-> ZOptional(ZEnum(BrewStatus)),
            teapotId |-> ZOptional(ZUuid),
            teaId    |-> ZOptional(ZUuid)])

----------------------------------------------------------------------------
(* A JavaScript Map keyed by the entity's id, as the sequence of its       *)
(* values in insertion order.                                              *)

MapHas(m, key) == \E i \in 1..Len(m) : m[i].id = key

MapGet(m, key) == m[CHOOSE i \in 1..Len(m) : m[i].id = key]

\* mutant: set() of a key that is present moves the entry to the end
MapSet_MoveToEnd(m, value) ==
    Append(SelectSeq(m, LAMBDA e : e.id # value.id), value)

\* set() of a key that is present replaces the value where it stands
MapSet(m, value) ==
    IF MapHas(m, value.id)
    THEN [i \in 1..Len(m) |-> IF m[i].id = value.id THEN value ELSE m[i]]
    ELSE Append(m, value)

MapDelete(m, key) == SelectSeq(m, LAMBDA e : e.id # key)

MapKeys(m) == {m[i].id : i \in 1..Len(m)}

----------------------------------------------------------------------------
(* Requests and responses.                                                 *)

NoBody == <<>>

Request(method, route, params, body) ==
    [method |-> method, route |-> route, params |-> params, body |-> body]

\* res.status(status).json(body)
Json(status, body) == [status |-> status, body |-> body]

ValidationError(message) == [code |-> "VALIDATION_ERROR", message |-> message]

InvalidBody(result) ==
    [code |-> "VALIDATION_ERROR", message |-> "Invalid request body",
     details |-> result.fieldErrors]

NotFound(message) == [code |-> "NOT_FOUND", message |-> message]


\* the body the error handler of the app answers with when a handler throws
InternalError ==
    [code |-> "INTERNAL_ERROR", message |-> "An unexpected error occurred"]

\* a request of a list route: req.params and req.query
QueryRequest(method, route, params, query) ==
    [method |-> method, route |-> route, params |-> params, body |-> NoBody,
     query |-> query]

----------------------------------------------------------------------------
(* The handlers.  Each takes the request's inputs and, where the code      *)
(* reads the clock, the instant `now` that new Date() returns.  uuidv4()   *)
(* returns a uuid that was never issued: the next one of its type.         *)

Uuidv4(type) == U(issued[type] + 1)

Issue(type) == issued' = [issued EXCEPT ![type] = @ + 1]

\* a response that leaves the stores, the clock and the uuids alone
Reply(response) ==
    /\ res' = response
    /\ UNCHANGED <<teapots, teas, brews, steeps, clock, issued, steepsCreated>>

\* POST /teapots
PostTeapot(body, now) ==
    LET result == SafeParse(CreateTeapotSchema, body) IN
    /\ req' = Request("POST", "/teapots", <<>>, body)
    /\ IF ~result.success
       THEN Reply(Json(400, InvalidBody(result)))
       ELSE LET teapot == Spread(Spread([id |-> Uuidv4("teapot")], result.data),
                                 [createdAt |-> T(now), updatedAt |-> T(now)])
            IN /\ teapots' = MapSet(teapots, teapot)
               /\ res' = Json(201, teapot)
               /\ clock' = now
               /\ Issue("teapot")
               /\ UNCHANGED <<teas, brews, steeps, steepsCreated>>

\* PUT /teapots/:id
PutTeapot(id, body, now) ==
    LET params == SafeParse(UuidParamSchema, [id |-> id]) IN
    /\ req' = Request("PUT", "/teapots/:id", [id |-> id], body)
    /\ IF ~params.success
       THEN Reply(Json(400, ValidationError("Invalid teapot ID format")))
       ELSE IF ~MapHas(teapots, params.data.id)
       THEN Reply(Json(404, NotFound("Teapot not found")))
       ELSE LET existing == MapGet(teapots, params.data.id)
                result == SafeParse(UpdateTeapotSchema, body)
            IN IF ~result.success
               THEN Reply(Json(400, InvalidBody(result)))
               ELSE LET teapot == Spread(Spread(existing, result.data),
                                         [updatedAt |-> T(now)])
                    IN /\ teapots' = MapSet(teapots, teapot)
                       /\ res' = Json(200, teapot)
                       /\ clock' = now
                       /\ UNCHANGED <<teas, brews, steeps, issued, steepsCreated>>

\* mutant: a PATCH that carries no field leaves updatedAt alone
PatchTeapot_StaleUpdatedAt(id, body, now) ==
    LET params == SafeParse(UuidParamSchema, [id |-> id]) IN
    /\ req' = Request("PATCH", "/teapots/:id", [id |-> id], body)
    /\ IF ~params.success
       THEN Reply(Json(400, ValidationError("Invalid teapot ID format")))
       ELSE IF ~MapHas(teapots, params.data.id)
       THEN Reply(Json(404, NotFound("Teapot not found")))
       ELSE LET existing == MapGet(teapots, params.data.id)
                result == SafeParse(PatchTeapotSchema, body)
            IN IF ~result.success
               THEN Reply(Json(400, InvalidBody(result)))
               ELSE LET teapot == IF DOMAIN result.data = {} THEN existing
                                  ELSE Spread(Spread(existing, result.data),
                                              [updatedAt |-> T(now)])
                    IN /\ teapots' = MapSet(teapots, teapot)
                       /\ res' = Json(200, teapot)
                       /\ clock' = now
                       /\ UNCHANGED <<teas, brews, steeps, issued, steepsCreated>>

\* PATCH /teapots/:id
PatchTeapot(id, body, now) ==
    LET params == SafeParse(UuidParamSchema, [id |-> id]) IN
    /\ req' = Request("PATCH", "/teapots/:id", [id |-> id], body)
    /\ IF ~params.success
       THEN Reply(Json(400, ValidationError("Invalid teapot ID format")))
       ELSE IF ~MapHas(teapots, params.data.id)
       THEN Reply(Json(404, NotFound("Teapot not found")))
       ELSE LET existing == MapGet(teapots, params.data.id)
                result == SafeParse(PatchTeapotSchema, body)
            IN IF ~result.success
               THEN Reply(Json(400, InvalidBody(result)))
               ELSE LET teapot == Spread(Spread(existing, result.data),
                                         [updatedAt |-> T(now)])
                    IN /\ teapots' = MapSet(teapots, teapot)
                       /\ res' = Json(200, teapot)
                       /\ clock' = now
                       /\ UNCHANGED <<teas, brews, steeps, issued, steepsCreated>>

\* mutant: deleting a teapot also deletes the brews made in it
DeleteTeapot_Cascade(id) ==
    LET params == SafeParse(UuidParamSchema, [id |-> id]) IN
    /\ req' = Request("DELETE", "/teapots/:id", [id |-> id], NoBody)
    /\ IF ~params.success
       THEN Reply(Json(400, ValidationError("Invalid teapot ID format")))
       ELSE IF ~MapHas(teapots, params.data.id)
       THEN Reply(Json(404, NotFound("Teapot not found")))
       ELSE /\ teapots' = MapDelete(teapots, params.data.id)
            /\ brews' = SelectSeq(brews, LAMBDA b : b.teapotId # params.data.id)
            /\ res' = Json(204, NoBody)
            /\ UNCHANGED <<teas, steeps, clock, issued, steepsCreated>>

\* mutant: the teapot is answered as deleted and kept
DeleteTeapot_Kept(id) ==
    LET params == SafeParse(UuidParamSchema, [id |-> id]) IN
    /\ req' = Request("DELETE", "/teapots/:id", [id |-> id], NoBody)
    /\ IF ~params.success
       THEN Reply(Json(400, ValidationError("Invalid teapot ID format")))
       ELSE IF ~MapHas(teapots, params.data.id)
       THEN Reply(Json(404, NotFound("Teapot not found")))
       ELSE Reply(Json(204, NoBody))

\* DELETE /teapots/:id
DeleteTeapot(id) ==
    LET params == SafeParse(UuidParamSchema, [id |-> id]) IN
    /\ req' = Request("DELETE", "/teapots/:id", [id |-> id], NoBody)
    /\ IF ~params.success
       THEN Reply(Json(400, ValidationError("Invalid teapot ID format")))
       ELSE IF ~MapHas(teapots, params.data.id)
       THEN Reply(Json(404, NotFound("Teapot not found")))
       ELSE /\ teapots' = MapDelete(teapots, params.data.id)
            /\ res' = Json(204, NoBody)
            /\ UNCHANGED <<teas, brews, steeps, clock, issued, steepsCreated>>

\* POST /teas
PostTea(body, now) ==
    LET result == SafeParse(CreateTeaSchema, body) IN
    /\ req' = Request("POST", "/teas", <<>>, body)
    /\ IF ~result.success
       THEN Reply(Json(400, InvalidBody(result)))
       ELSE LET tea == Spread(Spread([id |-> Uuidv4("tea")], result.data),
                              [createdAt |-> T(now), updatedAt |-> T(now)])
            IN /\ teas' = MapSet(teas, tea)
               /\ res' = Json(201, tea)
               /\ clock' = now
               /\ Issue("tea")
               /\ UNCHANGED <<teapots, brews, steeps, steepsCreated>>

\* PUT /teas/:id
PutTea(id, body, now) ==
    LET params == SafeParse(UuidParamSchema, [id |-> id]) IN
    /\ req' = Request("PUT", "/teas/:id", [id |-> id], body)
    /\ IF ~params.success
       THEN Reply(Json(400, ValidationError("Invalid tea ID format")))
       ELSE IF ~MapHas(teas, params.data.id)
       THEN Reply(Json(404, NotFound("Tea not found")))
       ELSE LET existing == MapGet(teas, params.data.id)
                result == SafeParse(UpdateTeaSchema, body)
            IN IF ~result.success
               THEN Reply(Json(400, InvalidBody(result)))
               ELSE LET tea == Spread(Spread(existing, result.data),
                                      [updatedAt |-> T(now)])
                    IN /\ teas' = MapSet(teas, tea)
                       /\ res' = Json(200, tea)
                       /\ clock' = now
                       /\ UNCHANGED <<teapots, brews, steeps, issued, steepsCreated>>

\* mutant: the brews of the tea follow its steeping temperature
PatchTea_Propagates(id, body, now) ==
    LET params == SafeParse(UuidParamSchema, [id |-> id]) IN
    /\ req' = Request("PATCH", "/teas/:id", [id |-> id], body)
    /\ IF ~params.success
       THEN Reply(Json(400, ValidationError("Invalid tea ID format")))
       ELSE IF ~MapHas(teas, params.data.id)
       THEN Reply(Json(404, NotFound("Tea not found")))
       ELSE LET existing == MapGet(teas, params.data.id)
                result == SafeParse(PatchTeaSchema, body)
            IN IF ~result.success
               THEN Reply(Json(400, InvalidBody(result)))
               ELSE LET tea == Spread(Spread(existing, result.data),
                                      [updatedAt |-> T(now)])
                    IN /\ teas' = MapSet(teas, tea)
                       /\ brews' = [i \in 1..Len(brews) |->
                                      IF brews[i].teaId = tea.id
                                      THEN [brews[i] EXCEPT
                                              !.waterTempCelsius = tea.steepTempCelsius]
                                      ELSE brews[i]]
                       /\ res' = Json(200, tea)
                       /\ clock' = now
                       /\ UNCHANGED <<teapots, steeps, issued, steepsCreated>>

\* PATCH /teas/:id
PatchTea(id, body, now) ==
    LET params == SafeParse(UuidParamSchema, [id |-> id]) IN
    /\ req' = Request("PATCH", "/teas/:id", [id |-> id], body)
    /\ IF ~params.success
       THEN Reply(Json(400, ValidationError("Invalid tea ID format")))
       ELSE IF ~MapHas(teas, params.data.id)
       THEN Reply(Json(404, NotFound("Tea not found")))
       ELSE LET existing == MapGet(teas, params.data.id)
                result == SafeParse(PatchTeaSchema, body)
            IN IF ~result.success
               THEN Reply(Json(400, InvalidBody(result)))
               ELSE LET tea == Spread(Spread(existing, result.data),
                                      [updatedAt |-> T(now)])
                    IN /\ teas' = MapSet(teas, tea)
                       /\ res' = Json(200, tea)
                       /\ clock' = now
                       /\ UNCHANGED <<teapots, brews, steeps, issued, steepsCreated>>

\* DELETE /teas/:id
DeleteTea(id) ==
    LET params == SafeParse(UuidParamSchema, [id |-> id]) IN
    /\ req' = Request("DELETE", "/teas/:id", [id |-> id], NoBody)
    /\ IF ~params.success
       THEN Reply(Json(400, ValidationError("Invalid tea ID format")))
       ELSE IF ~MapHas(teas, params.data.id)
       THEN Reply(Json(404, NotFound("Tea not found")))
       ELSE /\ teas' = MapDelete(teas, params.data.id)
            /\ res' = Json(204, NoBody)
            /\ UNCHANGED <<teapots, brews, steeps, clock, issued, steepsCreated>>

\* Array.from(steeps.values()).filter((s) => s.brewId === brewId)
ExistingSteeps(brewId) == SelectSeq(steeps, LAMBDA s : s.brewId = brewId)

\* mutant: counts the steeps of every brew
SteepNumber_AllSteeps(brewId) == Len(steeps) + 1

\* mutant: numbers from 0
SteepNumber_ZeroBased(brewId) == Len(ExistingSteeps(brewId))

\* the steep number of the next steep of the brew
SteepNumber(brewId) == Len(ExistingSteeps(brewId)) + 1

\* mutant: the cascade is left out
DeleteAssociatedSteeps_Skipped(brewId) == steeps

\* mutant: deleting a brew deletes the steeps of every brew
DeleteAssociatedSteeps_All(brewId) == <<>>

\* the steep store after the loop that deletes the steeps of the brew; a
\* Map iterator still visits every remaining entry when the entry it stands
\* on is deleted, so the loop keeps exactly the steeps of the other brews
DeleteAssociatedSteeps(brewId) == SelectSeq(steeps, LAMBDA s : s.brewId # brewId)

\* mutant: the tea is looked up before the teapot
ReferenceError_TeaFirst(data) ==
    IF ~MapHas(teas, data.teaId) THEN "Tea not found"
    ELSE IF ~MapHas(teapots, data.teapotId) THEN "Teapot not found"
    ELSE ""

\* the message of the referential check of POST /brews, "" when it passes
ReferenceError(data) ==
    IF ~MapHas(teapots, data.teapotId) THEN "Teapot not found"
    ELSE IF ~MapHas(teas, data.teaId) THEN "Tea not found"
    ELSE ""

\* mutant: the water is always at the temperature of the tea
PostBrew_TeaTemperature(body, now) ==
    LET result == SafeParse(CreateBrewSchema, body) IN
    /\ req' = Request("POST", "/brews", <<>>, body)
    /\ IF ~result.success
       THEN Reply(Json(400, InvalidBody(result)))
       ELSE IF ReferenceError(result.data) # ""
       THEN Reply(Json(400, ValidationError(ReferenceError(result.data))))
       ELSE LET tea == MapGet(teas, result.data.teaId)
                brew ==
                    [id               |-> Uuidv4("brew"),
                     teapotId         |-> result.data.teapotId,
                     teaId            |-> result.data.teaId,
                     status           |-> S("preparing"),
                     waterTempCelsius |-> tea.steepTempCelsius,
                     notes            |-> result.data.notes,
                     startedAt        |-> T(now),
                     completedAt      |-> Null,
                     createdAt        |-> T(now),
                     updatedAt        |-> T(now)]
            IN /\ brews' = MapSet(brews, brew)
               /\ res' = Json(201, brew)
               /\ clock' = now
               /\ Issue("brew")
               /\ UNCHANGED <<teapots, teas, steeps, steepsCreated>>

\* POST /brews
PostBrew(body, now) ==
    LET result == SafeParse(CreateBrewSchema, body) IN
    /\ req' = Request("POST", "/brews", <<>>, body)
    /\ IF ~result.success
       THEN Reply(Json(400, InvalidBody(result)))
       ELSE IF ReferenceError(result.data) # ""
       THEN Reply(Json(400, ValidationError(ReferenceError(result.data))))
       ELSE LET tea == MapGet(teas, result.data.teaId)
                brew ==
                    [id               |-> Uuidv4("brew"),
                     teapotId         |-> result.data.teapotId,
                     teaId            |-> result.data.teaId,
                     status           |-> S("preparing"),
                     waterTempCelsius |->
                         IF "waterTempCelsius" \in DOMAIN result.data
                         THEN result.data.waterTempCelsius
                         ELSE tea.steepTempCelsius,
                     notes            |-> result.data.notes,
                     startedAt        |-> T(now),
                     completedAt      |-> Null,
                     createdAt        |-> T(now),
                     updatedAt        |-> T(now)]
            IN /\ brews' = MapSet(brews, brew)
               /\ res' = Json(201, brew)
               /\ clock' = now
               /\ Issue("brew")
               /\ UNCHANGED <<teapots, teas, steeps, steepsCreated>>

\* mutant: inlines whichever of the two is stored
BrewDetails_Partial(brew) ==
    Spread(Spread(brew,
                  IF MapHas(teapots, brew.teapotId)
                  THEN [teapot |-> MapGet(teapots, brew.teapotId)] ELSE <<>>),
           IF MapHas(teas, brew.teaId)
           THEN [tea |-> MapGet(teas, brew.teaId)] ELSE <<>>)

\* the body of a 200 of GET /brews/:id
BrewDetails(brew) ==
    IF MapHas(teapots, brew.teapotId) /\ MapHas(teas, brew.teaId)
    THEN Spread(brew, [teapot |-> MapGet(teapots, brew.teapotId),
                       tea    |-> MapGet(teas, brew.teaId)])
    ELSE brew

\* mutant: reading a brew marks it served
GetBrew_MarksServed(id) ==
    LET params == SafeParse(UuidParamSchema, [id |-> id]) IN
    /\ req' = Request("GET", "/brews/:id", [id |-> id], NoBody)
    /\ IF ~params.success
       THEN Reply(Json(400, ValidationError("Invalid brew ID format")))
       ELSE IF ~MapHas(brews, params.data.id)
       THEN Reply(Json(404, NotFound("Brew not found")))
       ELSE LET brew == Spread(MapGet(brews, params.data.id),
                               [status |-> S("served")])
            IN /\ brews' = MapSet(brews, brew)
               /\ res' = Json(200, BrewDetails(brew))
               /\ UNCHANGED <<teapots, teas, steeps, clock, issued, steepsCreated>>

\* GET /brews/:id
GetBrew(id) ==
    LET params == SafeParse(UuidParamSchema, [id |-> id]) IN
    /\ req' = Request("GET", "/brews/:id", [id |-> id], NoBody)
    /\ IF ~params.success
       THEN Reply(Json(400, ValidationError("Invalid brew ID format")))
       ELSE IF ~MapHas(brews, params.data.id)
       THEN Reply(Json(404, NotFound("Brew not found")))
       ELSE Reply(Json(200, BrewDetails(MapGet(brews, params.data.id))))

\* mutant: the body is validated before the brew is looked up
PatchBrew_BodyFirst(id, body, now) ==
    LET params == SafeParse(UuidParamSchema, [id |-> id]) IN
    /\ req' = Request("PATCH", "/brews/:id", [id |-> id], body)
    /\ IF ~params.success
       THEN Reply(Json(400, ValidationError("Invalid brew ID format")))
       ELSE LET result == SafeParse(PatchBrewSchema, body) IN
            IF ~result.success
            THEN Reply(Json(400, InvalidBody(result)))
            ELSE IF ~MapHas(brews, params.data.id)
            THEN Reply(Json(404, NotFound("Brew not found")))
            ELSE LET existing == MapGet(brews, params.data.id)
                     brew == Spread(Spread(existing, result.data),
                                    [updatedAt |-> T(now)])
                 IN /\ brews' = MapSet(brews, brew)
                    /\ res' = Json(200, brew)
                    /\ clock' = now
                    /\ UNCHANGED <<teapots, teas, steeps, issued, steepsCreated>>

\* mutant: a brew's status only moves forward
PatchBrew_ForwardOnly(id, body, now) ==
    LET params == SafeParse(UuidParamSchema, [id |-> id])
        order == [preparing |-> 1, steeping |-> 2, ready |-> 3, served |-> 4,
                  cold |-> 5]
    IN
    /\ req' = Request("PATCH", "/brews/:id", [id |-> id], body)
    /\ IF ~params.success
       THEN Reply(Json(400, ValidationError("Invalid brew ID format")))
       ELSE IF ~MapHas(brews, params.data.id)
       THEN Reply(Json(404, NotFound("Brew not found")))
       ELSE LET existing == MapGet(brews, params.data.id)
                result == SafeParse(PatchBrewSchema, body)
            IN IF ~result.success
               THEN Reply(Json(400, InvalidBody(result)))
               ELSE IF /\ "status" \in DOMAIN result.data
                       /\ order[result.data.status[2]] < order[existing.status[2]]
               THEN Reply(Json(400, ValidationError("Invalid status transition")))
               ELSE LET brew == Spread(Spread(existing, result.data),
                                       [updatedAt |-> T(now)])
                    IN /\ brews' = MapSet(brews, brew)
                       /\ res' = Json(200, brew)
                       /\ clock' = now
                       /\ UNCHANGED <<teapots, teas, steeps, issued, steepsCreated>>

\* mutant: serving a brew completes it
PatchBrew_CompletesWhenServed(id, body, now) ==
    LET params == SafeParse(UuidParamSchema, [id |-> id]) IN
    /\ req' = Request("PATCH", "/brews/:id", [id |-> id], body)
    /\ IF ~params.success
       THEN Reply(Json(400, ValidationError("Invalid brew ID format")))
       ELSE IF ~MapHas(brews, params.data.id)
       THEN Reply(Json(404, NotFound("Brew not found")))
       ELSE LET existing == MapGet(brews, params.data.id)
                result == SafeParse(PatchBrewSchema, body)
            IN IF ~result.success
               THEN Reply(Json(400, InvalidBody(result)))
               ELSE LET served == /\ "status" \in DOMAIN result.data
                                  /\ result.data.status = S("served")
                                  /\ "completedAt" \notin DOMAIN result.data
                        brew == Spread(Spread(existing, result.data),
                                       IF served
                                       THEN [updatedAt |-> T(now), completedAt |-> T(now)]
                                       ELSE [updatedAt |-> T(now)])
                    IN /\ brews' = MapSet(brews, brew)
                       /\ res' = Json(200, brew)
                       /\ clock' = now
                       /\ UNCHANGED <<teapots, teas, steeps, issued, steepsCreated>>

\* PATCH /brews/:id
PatchBrew(id, body, now) ==
    LET params == SafeParse(UuidParamSchema, [id |-> id]) IN
    /\ req' = Request("PATCH", "/brews/:id", [id |-> id], body)
    /\ IF ~params.success
       THEN Reply(Json(400, ValidationError("Invalid brew ID format")))
       ELSE IF ~MapHas(brews, params.data.id)
       THEN Reply(Json(404, NotFound("Brew not found")))
       ELSE LET existing == MapGet(brews, params.data.id)
                result == SafeParse(PatchBrewSchema, body)
            IN IF ~result.success
               THEN Reply(Json(400, InvalidBody(result)))
               ELSE LET brew == Spread(Spread(existing, result.data),
                                       [updatedAt |-> T(now)])
                    IN /\ brews' = MapSet(brews, brew)
                       /\ res' = Json(200, brew)
                       /\ clock' = now
                       /\ UNCHANGED <<teapots, teas, steeps, issued, steepsCreated>>

\* DELETE /brews/:id
DeleteBrew(id) ==
    LET params == SafeParse(UuidParamSchema, [id |-> id]) IN
    /\ req' = Request("DELETE", "/brews/:id", [id |-> id], NoBody)
    /\ IF ~params.success
       THEN Reply(Json(400, ValidationError("Invalid brew ID format")))
       ELSE IF ~MapHas(brews, params.data.id)
       THEN Reply(Json(404, NotFound("Brew not found")))
       ELSE /\ steeps' = DeleteAssociatedSteeps(params.data.id)
            /\ brews' = MapDelete(brews, params.data.id)
            /\ res' = Json(204, NoBody)
            /\ UNCHANGED <<teapots, teas, clock, issued, steepsCreated>>

\* the number of 201s POST /brews/:brewId/steeps has answered for the brew
Created(brewId) ==
    IF brewId \in DOMAIN steepsCreated THEN steepsCreated[brewId] ELSE 0

\* no error response: the request passed every check
Passed == Json(0, NoBody)

\* mutant: the brew is not looked up
PostSteepError_NoLookup(brewId, body) ==
    LET params == SafeParse(BrewIdParamSchema, [brewId |-> brewId]) IN
    IF ~params.success
    THEN Json(400, ValidationError("Invalid brew ID format"))
    ELSE LET result == SafeParse(CreateSteepSchema, body) IN
         IF ~result.success
         THEN Json(400, InvalidBody(result))
         ELSE Passed

\* mutant: the body is validated before the brew is looked up
PostSteepError_BodyFirst(brewId, body) ==
    LET params == SafeParse(BrewIdParamSchema, [brewId |-> brewId])
        result == SafeParse(CreateSteepSchema, body)
    IN IF ~params.success
       THEN Json(400, ValidationError("Invalid brew ID format"))
       ELSE IF ~result.success
       THEN Json(400, InvalidBody(result))
       ELSE IF ~MapHas(brews, params.data.brewId)
       THEN Json(404, NotFound("Brew not found"))
       ELSE Passed

\* the error response of POST /brews/:brewId/steeps, Passed when there is none
PostSteepError(brewId, body) ==
    LET params == SafeParse(BrewIdParamSchema, [brewId |-> brewId]) IN
    IF ~params.success
    THEN Json(400, ValidationError("Invalid brew ID format"))
    ELSE IF ~MapHas(brews, params.data.brewId)
    THEN Json(404, NotFound("Brew not found"))
    ELSE LET result == SafeParse(CreateSteepSchema, body) IN
         IF ~result.success
         THEN Json(400, InvalidBody(result))
         ELSE Passed

\* POST /brews/:brewId/steeps
PostSteep(brewId, body, now) ==
    LET error == PostSteepError(brewId, body) IN
    /\ req' = Request("POST", "/brews/:brewId/steeps", [brewId |-> brewId], body)
    /\ IF error.status # 0
       THEN Reply(error)
       ELSE LET result == SafeParse(CreateSteepSchema, body)
                steep ==
                    [id              |-> Uuidv4("steep"),
                     brewId          |-> brewId,
                     steepNumber     |-> N(SteepNumber(brewId)),
                     durationSeconds |-> result.data.durationSeconds,
                     rating          |-> result.data.rating,
                     notes           |-> result.data.notes,
                     createdAt       |-> T(now)]
            IN /\ steeps' = MapSet(steeps, steep)
               /\ res' = Json(201, steep)
               /\ clock' = now
               /\ Issue("steep")
               /\ steepsCreated' =
                      [b \in (DOMAIN steepsCreated) \cup {brewId} |->
                          IF b = brewId THEN Created(b) + 1
                          ELSE steepsCreated[b]]
               /\ UNCHANGED <<teapots, teas, brews>>

\* mutant: a filter of the query is ignored
FilterBy_Ignored(items, query, key) == items

\* items.filter((e) => e[key] === query[key]) when the query has the key
FilterBy(items, query, key) ==
    IF key \in DOMAIN query
    THEN SelectSeq(items, LAMBDA e : e[key] = query[key])
    ELSE items

\* Math.ceil(n / d) for n >= 0 and d > 0
MathCeil(n, d) == (n + d - 1) \div d

\* items.slice(start, end) for 0 <= start <= end
Slice(items, start, end) ==
    IF start >= Len(items) THEN <<>>
    ELSE SubSeq(items, start + 1, IF end < Len(items) THEN end ELSE Len(items))

\* mutant: the first page starts after `limit` items
Paginate_PageAsOffset(items, query) ==
    LET total == Len(items)
        totalPages == MathCeil(total, query.limit[2])
        start == query.page[2] * query.limit[2]
        data == Slice(items, start, start + query.limit[2])
    IN [data |-> data,
        pagination |-> [page |-> query.page, limit |-> query.limit,
                        total |-> N(total), totalPages |-> N(totalPages)]]

\* the pagination block every list handler ends with, and its res.json body
Paginate(items, query) ==
    LET total == Len(items)
        totalPages == MathCeil(total, query.limit[2])
        start == (query.page[2] - 1) * query.limit[2]
        data == Slice(items, start, start + query.limit[2])
    IN [data |-> data,
        pagination |-> [page |-> query.page, limit |-> query.limit,
                        total |-> N(total), totalPages |-> N(totalPages)]]

\* GET /teapots.  TeapotQuerySchema.parse throws on a query it rejects, and
\* express hands what a handler throws to the error handler of the app.
GetTeapots(query) ==
    LET parsed == SafeParse(TeapotQuerySchema, query) IN
    /\ req' = QueryRequest("GET", "/teapots", <<>>, query)
    /\ IF ~parsed.success
       THEN Reply(Json(500, InternalError))
       ELSE LET items == FilterBy(FilterBy(teapots, parsed.data, "material"),
                                  parsed.data, "style")
            IN Reply(Json(200, Paginate(items, parsed.data)))

\* GET /teas
GetTeas(query) ==
    LET parsed == SafeParse(TeaQuerySchema, query) IN
    /\ req' = QueryRequest("GET", "/teas", <<>>, query)
    /\ IF ~parsed.success
       THEN Reply(Json(500, InternalError))
       ELSE LET items == FilterBy(FilterBy(teas, parsed.data, "type"),
                                  parsed.data, "caffeineLevel")
            IN Reply(Json(200, Paginate(items, parsed.data)))

\* mutant: a teapotId filter of a teapot that is not stored is a 404
GetBrews_TeapotChecked(query) ==
    LET parsed == SafeParse(BrewQuerySchema, query) IN
    /\ req' = QueryRequest("GET", "/brews", <<>>, query)
    /\ IF ~parsed.success
       THEN Reply(Json(500, InternalError))
       ELSE IF "teapotId" \in DOMAIN parsed.data /\ ~MapHas(teapots, parsed.data.teapotId)
       THEN Reply(Json(404, NotFound("Teapot not found")))
       ELSE LET items == FilterBy(FilterBy(FilterBy(brews, parsed.data, "status"),
                                           parsed.data, "teapotId"),
                                  parsed.data, "teaId")
            IN Reply(Json(200, Paginate(items, parsed.data)))

\* GET /brews
GetBrews(query) ==
    LET parsed == SafeParse(BrewQuerySchema, query) IN
    /\ req' = QueryRequest("GET", "/brews", <<>>, query)
    /\ IF ~parsed.success
       THEN Reply(Json(500, InternalError))
       ELSE LET items == FilterBy(FilterBy(FilterBy(brews, parsed.data, "status"),
                                           parsed.data, "teapotId"),
                                  parsed.data, "teaId")
            IN Reply(Json(200, Paginate(items, parsed.data)))

\* mutant: the latest steep first
RECURSIVE SortBySteepNumber_Descending(_)
SortBySteepNumber_Descending(items) ==
    IF items = <<>> THEN <<>>
    ELSE LET first == CHOOSE i \in DOMAIN items :
                         \A j \in DOMAIN items :
                            \/ items[i].steepNumber[2] > items[j].steepNumber[2]
                            \/ /\ items[i].steepNumber = items[j].steepNumber
                               /\ i <= j
         IN <<items[first]>> \o
            SortBySteepNumber_Descending(SubSeq(items, 1, first - 1) \o
                                         SubSeq(items, first + 1, Len(items)))

\* items.sort((a, b) => a.steepNumber - b.steepNumber): a stable sort
RECURSIVE SortBySteepNumber(_)
SortBySteepNumber(items) ==
    IF items = <<>> THEN <<>>
    ELSE LET first == CHOOSE i \in DOMAIN items :
                         \A j \in DOMAIN items :
                            \/ items[i].steepNumber[2] < items[j].steepNumber[2]
                            \/ /\ items[i].steepNumber = items[j].steepNumber
                               /\ i <= j
         IN <<items[first]>> \o
            SortBySteepNumber(SubSeq(items, 1, first - 1) \o
                              SubSeq(items, first + 1, Len(items)))

\* GET /brews/:brewId/steeps
GetSteeps(brewId, query) ==
    LET params == SafeParse(BrewIdParamSchema, [brewId |-> brewId]) IN
    /\ req' = QueryRequest("GET", "/brews/:brewId/steeps", [brewId |-> brewId], query)
    /\ IF ~params.success
       THEN Reply(Json(400, ValidationError("Invalid brew ID format")))
       ELSE IF ~MapHas(brews, params.data.brewId)
       THEN Reply(Json(404, NotFound("Brew not found")))
       ELSE LET parsed == SafeParse(PaginationQuerySchema, query) IN
            IF ~parsed.success
            THEN Reply(Json(500, InternalError))
            ELSE LET items == SortBySteepNumber(
                                  SelectSeq(steeps, LAMBDA s : s.brewId = params.data.brewId))
                 IN Reply(Json(200, Paginate(items, parsed.data)))

TeapotIdParamSchema == [teapotId |-> ZUuid]

\* mutant: the brews of every teapot
TeapotBrews_All(teapotId) == brews

\* Array.from(brews.values()).filter((b) => b.teapotId === teapotId)
TeapotBrews(teapotId) == SelectSeq(brews, LAMBDA b : b.teapotId = teapotId)

\* getTeapotBrews, mounted as GET /teapots/:teapotId/brews
GetTeapotBrews(teapotId, query) ==
    LET params == SafeParse(TeapotIdParamSchema, [teapotId |-> teapotId]) IN
    /\ req' = QueryRequest("GET", "/teapots/:teapotId/brews",
                           [teapotId |-> teapotId], query)
    /\ IF ~params.success
       THEN Reply(Json(400, ValidationError("Invalid teapot ID format")))
       ELSE IF ~MapHas(teapots, params.data.teapotId)
       THEN Reply(Json(404, NotFound("Teapot not found")))
       ELSE LET parsed == SafeParse(PaginationQuerySchema, query) IN
            IF ~parsed.success
            THEN Reply(Json(500, InternalError))
            ELSE Reply(Json(200, Paginate(TeapotBrews(params.data.teapotId),
                                          parsed.data)))

\* GET /teapots/:id
GetTeapot(id) ==
    LET params == SafeParse(UuidParamSchema, [id |-> id]) IN
    /\ req' = Request("GET", "/teapots/:id", [id |-> id], NoBody)
    /\ IF ~params.success
       THEN Reply(Json(400, ValidationError("Invalid teapot ID format")))
       ELSE IF ~MapHas(teapots, params.data.id)
       THEN Reply(Json(404, NotFound("Teapot not found")))
       ELSE Reply(Json(200, MapGet(teapots, params.data.id)))

\* GET /teas/:id
GetTea(id) ==
    LET params == SafeParse(UuidParamSchema, [id |-> id]) IN
    /\ req' = Request("GET", "/teas/:id", [id |-> id], NoBody)
    /\ IF ~params.success
       THEN Reply(Json(400, ValidationError("Invalid tea ID format")))
       ELSE IF ~MapHas(teas, params.data.id)
       THEN Reply(Json(404, NotFound("Tea not found")))
       ELSE Reply(Json(200, MapGet(teas, params.data.id)))

\* a response that reads the clock and leaves the stores and the uuids alone
ReplyAt(response, now) ==
    /\ res' = response
    /\ clock' = now
    /\ UNCHANGED <<teapots, teas, brews, steeps, issued, steepsCreated>>

\* GET /health
GetHealth(now) ==
    /\ req' = Request("GET", "/health", <<>>, NoBody)
    /\ ReplyAt(Json(200, [status |-> S("ok"), timestamp |-> T(now),
                          version |-> S("1.0.0")]), now)

\* GET /health/live
GetHealthLive ==
    /\ req' = Request("GET", "/health/live", <<>>, NoBody)
    /\ Reply(Json(200, [status |-> S("ok")]))

\* GET /health/ready: both checks are the constant ok
GetHealthReady(now) ==
    LET checks == <<[name |-> S("memory"), status |-> S("ok")],
                    [name |-> S("database"), status |-> S("ok")]>>
        allOk == \A i \in DOMAIN checks : checks[i].status = S("ok")
    IN /\ req' = Request("GET", "/health/ready", <<>>, NoBody)
       /\ ReplyAt(Json(IF allOk THEN 200 ELSE 503,
                       [status |-> IF allOk THEN S("ok") ELSE S("degraded"),
                        timestamp |-> T(now), checks |-> Arr(checks)]), now)

\* GET /brew
GetBrewSignature ==
    /\ req' = Request("GET", "/brew", <<>>, NoBody)
    /\ Reply(Json(418, [error |-> S("I'm a teapot"),
                        message |-> S("This server is TIF-compliant and cannot brew coffee"),
                        spec |-> S("https://teapotframework.dev")]))

\* the 404 handler of the app, for a method and a path no route takes
NoRoute(method, path) ==
    /\ req' = Request(method, path, <<>>, NoBody)
    /\ Reply(Json(404, [code |-> "NOT_FOUND",
                        message |-> "Cannot " \o method \o " " \o path]))

\* express.json() throws on a body that is not JSON, and the error handler
\* of the app answers before any route is looked at
MalformedJson(method, route) ==
    /\ req' = Request(method, route, <<>>, NoBody)
    /\ Reply(Json(500, InternalError))

----------------------------------------------------------------------------
(* The specification: any request of the sets below, at any instant up to  *)
(* MaxTime, while uuids are left.                                          *)

MaxTeapots == 1
MaxTeas == 1
MaxBrews == 2
MaxSteeps == 3
MaxTime == 0

InvalidUuid == S("invalid-uuid")

Uuids(n) == {U(i) : i \in 1..n}

\* the instants new Date() can return now: the clock never runs backwards
TimesTo(max) == clock..max

Times == TimesTo(MaxTime)

\* whether uuidv4() still has a uuid of the type within the bound
Fresh(type, bound) == issued[type] < bound

TeapotBody == [name |-> S("Kyusu"), material |-> S("clay"), capacityMl |-> N(350)]

TeapotUpdate ==
    [name |-> S("Kyusu"), material |-> S("clay"), capacityMl |-> N(350),
     style |-> S("english"), description |-> Null]

TeaBody ==
    [name |-> S("Sencha"), type |-> S("green"), steepTempCelsius |-> N(75),
     steepTimeSeconds |-> N(120)]

TeaUpdate ==
    [name |-> S("Sencha"), type |-> S("green"), caffeineLevel |-> S("medium"),
     steepTempCelsius |-> N(75), steepTimeSeconds |-> N(120),
     description |-> Null]

PostTeapotBodies == {TeapotBody, [name |-> S("")]}
PutTeapotBodies == {TeapotUpdate, [name |-> S("Kyusu")]}
PatchTeapotBodies == {[style |-> S("english")], [capacityMl |-> N(0)]}
PostTeaBodies == {TeaBody, [name |-> S("Sencha")]}
PutTeaBodies == {TeaUpdate, [type |-> S("coffee")]}
PatchTeaBodies == {[caffeineLevel |-> S("medium")], [steepTempCelsius |-> N(40)]}

PostBrewBodies ==
    {[teapotId |-> tp, teaId |-> te] :
        tp \in Uuids(MaxTeapots), te \in Uuids(MaxTeas)}
    \cup {[teapotId |-> InvalidUuid, teaId |-> U(1)]}

PatchBrewBodies == {[status |-> S("ready")], [status |-> S("boiling")]}

PostSteepBodies == {[durationSeconds |-> N(30)], [durationSeconds |-> N(0)]}

Init ==
    /\ teapots = <<>>
    /\ teas = <<>>
    /\ brews = <<>>
    /\ steeps = <<>>
    /\ clock = 0
    /\ issued = [teapot |-> 0, tea |-> 0, brew |-> 0, steep |-> 0]
    /\ req = Request("", "", <<>>, NoBody)
    /\ res = Json(0, NoBody)
    /\ steepsCreated = <<>>

Next ==
    \/ \E body \in PostTeapotBodies, now \in Times :
          Fresh("teapot", MaxTeapots) /\ PostTeapot(body, now)
    \/ \E id \in Uuids(MaxTeapots) \cup {InvalidUuid},
          body \in PutTeapotBodies, now \in Times : PutTeapot(id, body, now)
    \/ \E id \in Uuids(MaxTeapots) \cup {InvalidUuid},
          body \in PatchTeapotBodies, now \in Times : PatchTeapot(id, body, now)
    \/ \E id \in Uuids(MaxTeapots) \cup {InvalidUuid} : DeleteTeapot(id)
    \/ \E body \in PostTeaBodies, now \in Times :
          Fresh("tea", MaxTeas) /\ PostTea(body, now)
    \/ \E id \in Uuids(MaxTeas) \cup {InvalidUuid},
          body \in PutTeaBodies, now \in Times : PutTea(id, body, now)
    \/ \E id \in Uuids(MaxTeas) \cup {InvalidUuid},
          body \in PatchTeaBodies, now \in Times : PatchTea(id, body, now)
    \/ \E id \in Uuids(MaxTeas) \cup {InvalidUuid} : DeleteTea(id)
    \/ \E body \in PostBrewBodies, now \in Times :
          Fresh("brew", MaxBrews) /\ PostBrew(body, now)
    \/ \E id \in Uuids(MaxBrews) \cup {InvalidUuid} : GetBrew(id)
    \/ \E id \in Uuids(MaxBrews) \cup {InvalidUuid},
          body \in PatchBrewBodies, now \in Times : PatchBrew(id, body, now)
    \/ \E id \in Uuids(MaxBrews) \cup {InvalidUuid} : DeleteBrew(id)
    \/ \E brewId \in Uuids(MaxBrews) \cup {InvalidUuid},
          body \in PostSteepBodies, now \in Times :
          Fresh("steep", MaxSteeps) /\ PostSteep(brewId, body, now)

Spec == Init /\ [][Next]_vars

----------------------------------------------------------------------------
(* Properties of the steep counter, the cascade and the referential        *)
(* checks, under Spec.                                                     *)

IsRequest(r, method, route) == r.method = method /\ r.route = route

SteepsOf(ss, brewId) == {ss[i] : i \in {j \in 1..Len(ss) : ss[j].brewId = brewId}}

SteepBrewIds(ss) == {ss[i].brewId : i \in 1..Len(ss)}

\* C1: the k-th successful POST /brews/:brewId/steeps of a brew returns and
\* stores the steep with steepNumber k, whatever was handled in between.
C1_KthSteepHasNumberK ==
    [][(IsRequest(req', "POST", "/brews/:brewId/steeps") /\ res'.status = 201)
        => /\ res'.body.steepNumber = N(steepsCreated'[req'.params.brewId])
           /\ res'.body.brewId = req'.params.brewId
           /\ MapHas(steeps', res'.body.id)
           /\ MapGet(steeps', res'.body.id) = res'.body]_vars

\* the second steep of a brew was just created, after a steep of another brew
C1_Witness ==
    /\ IsRequest(req, "POST", "/brews/:brewId/steeps")
    /\ res.status = 201
    /\ res.body.steepNumber = N(2)
    /\ Len(steeps) = 3
    /\ steeps[1].brewId = steeps[3].brewId
    /\ steeps[2].brewId # steeps[3].brewId
    /\ steeps[3] = res.body

\* C2: for every brew id, the steepNumbers of its stored steeps are pairwise
\* distinct and are exactly 1..n, n the number of its stored steeps.
C2_SteepNumbersDense ==
    \A b \in MapKeys(brews) \cup SteepBrewIds(steeps) :
        LET mine == SteepsOf(steeps, b)
            n == Len(SelectSeq(steeps, LAMBDA s : s.brewId = b))
        IN /\ {s.steepNumber : s \in mine} = {N(k) : k \in 1..n}
           /\ \A s1, s2 \in mine : s1.steepNumber = s2.steepNumber => s1 = s2

\* a brew holds steeps 1 and 2 after another brew was deleted with its steep
C2_Witness ==
    /\ Len(steeps) = 2
    /\ steeps[1].brewId = steeps[2].brewId
    /\ issued.steep = 3
    /\ \E b \in DOMAIN steepsCreated : ~MapHas(brews, b)

\* C3: a successful DELETE /brews/:id removes the brew and exactly the steeps
\* whose brewId is id; the steeps of every other brew stay stored unchanged.
C3_DeleteBrewCascades ==
    [][(IsRequest(req', "DELETE", "/brews/:id") /\ res'.status = 204)
        => LET id == req'.params.id IN
           /\ MapHas(brews, id)
           /\ ~MapHas(brews', id)
           /\ \A b \in MapKeys(brews) \ {id} :
                 MapHas(brews', b) /\ MapGet(brews', b) = MapGet(brews, b)
           /\ SteepsOf(steeps', id) = {}
           /\ \A i \in 1..Len(steeps) :
                 steeps[i].brewId # id => \E j \in 1..Len(steeps') : steeps'[j] = steeps[i]
           /\ \A j \in 1..Len(steeps') :
                 \E i \in 1..Len(steeps) : steeps[i] = steeps'[j]]_vars

\* a brew with steeps was just deleted while another brew keeps its steeps
C3_Witness ==
    /\ IsRequest(req, "DELETE", "/brews/:id")
    /\ res.status = 204
    /\ Created(req.params.id) > 0
    /\ steeps # <<>>

\* C4: handlers being atomic, no stored steep ever names a brew that is not
\* in the brew store.
C4_NoSteepUnderMissingBrew ==
    \A i \in 1..Len(steeps) : MapHas(brews, steeps[i].brewId)

\* a steep creation was handled after the deletion of its brew, which had
\* steeps: it was refused
C4_Witness ==
    /\ IsRequest(req, "POST", "/brews/:brewId/steeps")
    /\ res.status = 404
    /\ req.body \in {b \in PostSteepBodies : SafeParse(CreateSteepSchema, b).success}
    /\ Created(req.params.brewId) > 0

\* C5: POST /brews with a shape-valid body inserts a brew only if the teapot
\* and the tea are stored at that moment; otherwise it answers 400
\* VALIDATION_ERROR, "Teapot not found" when the teapot is missing (also when
\* both are), "Tea not found" when only the tea is, and inserts nothing.
C5_BrewReferencesChecked ==
    [][(/\ IsRequest(req', "POST", "/brews")
        /\ SafeParse(CreateBrewSchema, req'.body).success)
        => IF req'.body.teapotId \notin MapKeys(teapots)
           THEN /\ res' = Json(400, [code |-> "VALIDATION_ERROR",
                                     message |-> "Teapot not found"])
                /\ brews' = brews
           ELSE IF req'.body.teaId \notin MapKeys(teas)
           THEN /\ res' = Json(400, [code |-> "VALIDATION_ERROR",
                                     message |-> "Tea not found"])
                /\ brews' = brews
           ELSE /\ res'.status = 201
                /\ Len(brews') = Len(brews) + 1]_vars

\* a brew creation was refused with the teapot and the tea both missing
C5_Witness ==
    /\ IsRequest(req, "POST", "/brews")
    /\ res.status = 400
    /\ res.body.message = "Teapot not found"
    /\ req.body.teaId \notin MapKeys(teas)
    /\ issued.teapot > 0

\* C6: POST /brews/:brewId/steeps with a UUID-shaped brewId that is not
\* stored answers 404 NOT_FOUND "Brew not found", whether or not the body is
\* valid, and inserts no steep.
C6_SteepOfMissingBrewIs404 ==
    [][(/\ IsRequest(req', "POST", "/brews/:brewId/steeps")
        /\ req'.params.brewId[1] = "uuid"
        /\ req'.params.brewId \notin MapKeys(brews))
        => /\ res' = Json(404, [code |-> "NOT_FOUND", message |-> "Brew not found"])
           /\ steeps' = steeps]_vars

\* an invalid steep body for a brew that is not stored was answered 404
C6_Witness ==
    /\ IsRequest(req, "POST", "/brews/:brewId/steeps")
    /\ res.status = 404
    /\ ~SafeParse(CreateSteepSchema, req.body).success

\* C7: a successful DELETE of a teapot or of a tea removes only that entity;
\* the brews and the steeps are unchanged, so the brews that reference the
\* deleted entity stay stored with their teapotId and teaId.
C7_DeleteTeapotOrTeaNoCascade ==
    [][((\/ IsRequest(req', "DELETE", "/teapots/:id")
         \/ IsRequest(req', "DELETE", "/teas/:id")) /\ res'.status = 204)
        => /\ brews' = brews
           /\ steeps' = steeps
           /\ IF req'.route = "/teapots/:id"
              THEN /\ teas' = teas
                   /\ MapKeys(teapots') = MapKeys(teapots) \ {req'.params.id}
                   /\ \A k \in MapKeys(teapots') :
                         MapGet(teapots', k) = MapGet(teapots, k)
              ELSE /\ teapots' = teapots
                   /\ MapKeys(teas') = MapKeys(teas) \ {req'.params.id}
                   /\ \A k \in MapKeys(teas') :
                         MapGet(teas', k) = MapGet(teas, k)]_vars

\* a teapot was just deleted and a stored brew, with a steep, references it
C7_Witness ==
    /\ IsRequest(req, "DELETE", "/teapots/:id")
    /\ res.status = 204
    /\ \E i \in 1..Len(brews) : brews[i].teapotId = req.params.id
    /\ steeps # <<>>

\* C8: GET /brews/:id of a stored brew answers 200, with the brew and its
\* teapot and tea inlined when both are stored, and with the bare brew (no
\* teapot and no tea key) when one of them is not.
C8_GetBrewExpandsOrFallsBack ==
    [][(IsRequest(req', "GET", "/brews/:id") /\ req'.params.id \in MapKeys(brews))
        => LET brew == MapGet(brews, req'.params.id) IN
           /\ res'.status = 200
           /\ \A k \in DOMAIN brew : res'.body[k] = brew[k]
           /\ IF brew.teapotId \in MapKeys(teapots) /\ brew.teaId \in MapKeys(teas)
              THEN /\ DOMAIN res'.body = DOMAIN brew \cup {"teapot", "tea"}
                   /\ res'.body.teapot = MapGet(teapots, brew.teapotId)
                   /\ res'.body.tea = MapGet(teas, brew.teaId)
              ELSE DOMAIN res'.body = DOMAIN brew]_vars

\* a patched brew was read after its tea was deleted: the bare brew came back
C8_Witness ==
    /\ IsRequest(req, "GET", "/brews/:id")
    /\ res.status = 200
    /\ res.body.status = S("ready")
    /\ "teapot" \notin DOMAIN res.body
    /\ MapHas(teapots, res.body.teapotId)
    /\ ~MapHas(teas, res.body.teaId)

----------------------------------------------------------------------------
(* SpecCrud: one teapot, one tea and one brew, created, replaced and       *)
(* patched with bodies that carry defaults, optional keys, explicit nulls  *)
(* and keys the schemas do not know.                                       *)

MaxCrudIds == 1
MaxCrudTime == 1

CrudTimes == TimesTo(MaxCrudTime)

CrudPostTeapotBodies == {TeapotBody}

CrudPutTeapotBodies ==
    {[name |-> S("Tetsubin"), material |-> S("cast-iron"), capacityMl |-> N(900),
      style |-> S("kyusu"), description |-> S("heavy"),
      id |-> U(9), createdAt |-> T(9)]}

CrudPatchTeapotBodies ==
    {<<>>,
     [name |-> S("Pot"), description |-> Null, id |-> U(9), createdAt |-> T(9)]}

CrudPostTeaBodies ==
    {[name |-> S("Gyokuro"), type |-> S("green"), origin |-> S("Japan"),
      steepTempCelsius |-> N(60), steepTimeSeconds |-> N(90)]}

CrudPutTeaBodies ==
    {[name |-> S("Assam"), type |-> S("black"), origin |-> S("India"),
      caffeineLevel |-> S("high"), steepTempCelsius |-> N(100),
      steepTimeSeconds |-> N(240), description |-> S("malty")],
     [name |-> S("Rooibos"), type |-> S("rooibos"), caffeineLevel |-> S("none"),
      steepTempCelsius |-> N(100), steepTimeSeconds |-> N(300),
      description |-> Null, id |-> U(9)]}

CrudPatchTeaBodies ==
    {<<>>,
     [origin |-> S("Yunnan"), steepTempCelsius |-> N(90), id |-> U(9)]}

CrudPostBrewBodies ==
    {[teapotId |-> U(1), teaId |-> U(1), waterTempCelsius |-> N(95),
      notes |-> S("first flush")]}

CrudPatchBrewBodies ==
    {<<>>,
     [status |-> S("ready"), teapotId |-> U(9), waterTempCelsius |-> N(60)],
     [notes |-> Null, completedAt |-> T(1), startedAt |-> T(9)]}

NextCrud ==
    \/ \E body \in CrudPostTeapotBodies, now \in CrudTimes :
          Fresh("teapot", MaxCrudIds) /\ PostTeapot(body, now)
    \/ \E body \in CrudPutTeapotBodies, now \in CrudTimes :
          PutTeapot(U(1), body, now)
    \/ \E body \in CrudPatchTeapotBodies, now \in CrudTimes :
          PatchTeapot(U(1), body, now)
    \/ \E body \in CrudPostTeaBodies, now \in CrudTimes :
          Fresh("tea", MaxCrudIds) /\ PostTea(body, now)
    \/ \E body \in CrudPutTeaBodies, now \in CrudTimes :
          PutTea(U(1), body, now)
    \/ \E body \in CrudPatchTeaBodies, now \in CrudTimes :
          PatchTea(U(1), body, now)
    \/ \E body \in CrudPostBrewBodies, now \in CrudTimes :
          Fresh("brew", MaxCrudIds) /\ PostBrew(body, now)
    \/ \E body \in CrudPatchBrewBodies, now \in CrudTimes :
          PatchBrew(U(1), body, now)

SpecCrud == Init /\ [][NextCrud]_vars

----------------------------------------------------------------------------
(* Properties of PUT and PATCH, under SpecCrud.                            *)

\* the store a route of the form /<resource>/:id reads and writes
StoreOf(route, tp, te, br) ==
    CASE route = "/teapots/:id" -> tp
      [] route = "/teas/:id" -> te
      [] route = "/brews/:id" -> br

\* the keys a PATCH of the route can set: the keys of its schema
Patchable(route) ==
    CASE route = "/teapots/:id" -> DOMAIN PatchTeapotSchema
      [] route = "/teas/:id" -> DOMAIN PatchTeaSchema
      [] route = "/brews/:id" -> DOMAIN PatchBrewSchema

\* C9 (as claimed): after a successful PUT of a teapot or a tea the entity
\* keeps its id and createdAt, and every other field but updatedAt comes from
\* the request body alone, the optional origin of a tea included.
C9_PutReplacesEveryField ==
    [][(/\ req'.method = "PUT"
        /\ req'.route \in {"/teapots/:id", "/teas/:id"}
        /\ res'.status = 200)
        => LET old == MapGet(StoreOf(req'.route, teapots, teas, brews), req'.params.id)
               new == MapGet(StoreOf(req'.route, teapots', teas', brews'), req'.params.id)
           IN /\ new.id = old.id
              /\ new.createdAt = old.createdAt
              /\ \A k \in (DOMAIN new) \ {"id", "createdAt", "updatedAt"} :
                    k \in DOMAIN req'.body /\ new[k] = req'.body[k]]_vars

\* C10: a successful PATCH of a teapot, a tea or a brew sets exactly the
\* patchable fields present in the body to the body's values (an explicit
\* null included) and updatedAt to the instant of the request; every other
\* field keeps its value, and an absent optional field stays absent.
C10_PatchSetsPresentFieldsOnly ==
    [][(/\ req'.method = "PATCH"
        /\ req'.route \in {"/teapots/:id", "/teas/:id", "/brews/:id"}
        /\ res'.status = 200)
        => LET old == MapGet(StoreOf(req'.route, teapots, teas, brews), req'.params.id)
               new == MapGet(StoreOf(req'.route, teapots', teas', brews'), req'.params.id)
           IN /\ res'.body = new
              /\ \A k \in (DOMAIN old) \cup (DOMAIN new) \cup
                          ((DOMAIN req'.body) \cap Patchable(req'.route)) :
                    IF k \in (DOMAIN req'.body) \cap Patchable(req'.route)
                    THEN k \in DOMAIN new /\ new[k] = req'.body[k]
                    ELSE IF k = "updatedAt"
                    THEN new[k] = T(clock')
                    ELSE /\ k \in DOMAIN old
                         /\ k \in DOMAIN new
                         /\ new[k] = old[k]]_vars

\* a brew that was patched to ready was then patched, later, with an explicit
\* null for its notes, a completedAt and a startedAt the schema does not know
C10_Witness ==
    /\ IsRequest(req, "PATCH", "/brews/:id")
    /\ res.status = 200
    /\ {"notes", "startedAt"} \subseteq DOMAIN req.body
    /\ req.body.notes = Null
    /\ res.body.notes = Null
    /\ res.body.completedAt = T(1)
    /\ res.body.status = S("ready")
    /\ res.body.startedAt = T(0)
    /\ res.body.updatedAt = T(1)
    /\ brews[1] = res.body

\* the fields of a stored brew that no request can change
BrewFixed == {"id", "createdAt", "teapotId", "teaId", "waterTempCelsius", "startedAt"}

\* every entry of the store is, at the same place of the store after the
\* step, an entry with the same values for the keys
Keeps(store, after, keys) ==
    /\ Len(after) >= Len(store)
    /\ \A i \in DOMAIN store :
          \A k \in keys : after[i][k] = store[i][k]

\* C11: across every step an entity that is stored keeps its id and its
\* createdAt, and a stored brew keeps its teapotId, teaId, waterTempCelsius
\* and startedAt, which equals its createdAt, whatever the body of the PUT or
\* PATCH carries for these keys (SpecCrud deletes nothing, so every entity
\* stays stored, at its place).
C11_IdentityFieldsImmutable ==
    [][/\ Keeps(teapots, teapots', {"id", "createdAt"})
       /\ Keeps(teas, teas', {"id", "createdAt"})
       /\ Keeps(brews, brews', BrewFixed)
       /\ \A i \in DOMAIN brews' : brews'[i].startedAt = brews'[i].createdAt]_vars

\* a brew made at instant 0 was patched at instant 1 with a body that carries
\* a teapotId and a waterTempCelsius, and kept its own
C11_Witness ==
    /\ IsRequest(req, "PATCH", "/brews/:id")
    /\ res.status = 200
    /\ {"teapotId", "waterTempCelsius"} \subseteq DOMAIN req.body
    /\ req.body.teapotId = U(9)
    /\ req.body.waterTempCelsius = N(60)
    /\ Len(brews) = 1
    /\ brews[1].teapotId = U(1)
    /\ brews[1].waterTempCelsius = N(95)
    /\ brews[1].startedAt = T(0)
    /\ brews[1].updatedAt = T(1)

\* the instant of a timestamp
Instant(t) == t[2]

\* no entry of the store has, after the step, an earlier updatedAt
UpdatedAtGrows(store, after) ==
    \A i \in DOMAIN store :
        i \in DOMAIN after /\ Instant(after[i].updatedAt) >= Instant(store[i].updatedAt)

\* C12: every successful PUT or PATCH sets updatedAt to the instant of the
\* request, an empty PATCH included; as the clock never runs backwards, no
\* stored entity's updatedAt ever decreases, and it is never before the
\* entity's createdAt.
C12_UpdatedAtIsRequestTime ==
    [][/\ (/\ req'.method \in {"PUT", "PATCH"}
           /\ res'.status = 200)
          => /\ clock' >= clock
             /\ MapGet(StoreOf(req'.route, teapots', teas', brews'),
                       req'.params.id).updatedAt = T(clock')
       /\ UpdatedAtGrows(teapots, teapots')
       /\ UpdatedAtGrows(teas, teas')
       /\ UpdatedAtGrows(brews, brews')
       /\ \A store \in {teapots', teas', brews'} :
             \A i \in DOMAIN store :
                 Instant(store[i].updatedAt) >= Instant(store[i].createdAt)]_vars

\* a teapot made at instant 0 was patched at instant 1 with an empty body:
\* nothing but its updatedAt changed
C12_Witness ==
    /\ IsRequest(req, "PATCH", "/teapots/:id")
    /\ req.body = <<>>
    /\ res.status = 200
    /\ teapots[1].createdAt = T(0)
    /\ teapots[1].updatedAt = T(1)
    /\ teapots[1].name = S("Kyusu")
    /\ teapots[1].style = S("english")

----------------------------------------------------------------------------
(* SpecList: the five list routes over stores of up to MaxListTeapots      *)
(* teapots of two materials, MaxListTeas teas, MaxListBrews brews and      *)
(* MaxListSteeps steeps, with queries whose page and limit are absent,     *)
(* valid, beyond the last page, out of range or not a number.              *)

MaxListTeapots == 2
MaxListTeas == 1
MaxListBrews == 3
MaxListSteeps == 2

ListPostTeapotBodies ==
    {TeapotBody,
     [name |-> S("Tetsubin"), material |-> S("cast-iron"), capacityMl |-> N(900),
      style |-> S("kyusu")]}

ListPostBrewBodies ==
    {[teapotId |-> tp, teaId |-> U(1)] : tp \in Uuids(MaxListTeapots)}

\* the brews that are steeped
ListSteepBrews == Uuids(1)

\* ?page=2&limit=2 and the like: pages within and beyond the last one
PageQueries ==
    {<<>>,
     [page |-> Q(<<"1">>), limit |-> Q(<<"2">>)],
     [page |-> Q(<<"2">>), limit |-> Q(<<"2">>)],
     [page |-> Q(<<"3">>), limit |-> Q(<<"1">>)],
     [page |-> Q(<<"3">>), limit |-> Q(<<"2">>)],
     [page |-> Q(<<"2", ".", "0">>), limit |-> Q(<<"1", "0", "0">>)]}

\* queries whose page or limit the schema rejects
BadPageQueries ==
    {[page |-> Q(<<"0">>)],
     [page |-> Q(<<"a">>)],
     [page |-> Q(<<"-", "1">>), limit |-> Q(<<"2">>)],
     [limit |-> Q(<<"1", "0", "1">>)],
     [limit |-> Q(<<>>)],
     [page |-> Q(<<"1">>), limit |-> Q(<<"1", ".", "5">>)]}

TeapotQueries ==
    {<<>>,
     [material |-> S("clay")],
     [style |-> S("english")],
     [material |-> S("cast-iron"), style |-> S("english")],
     [material |-> S("cast-iron"), page |-> Q(<<"2">>), limit |-> Q(<<"1">>)],
     [page |-> Q(<<"0">>)]}

TeaQueries ==
    {<<>>,
     [type |-> S("green"), limit |-> Q(<<"1">>)],
     [caffeineLevel |-> S("high")],
     [limit |-> Q(<<"0">>)]}

BrewQueries ==
    PageQueries \cup BadPageQueries \cup
    {[teapotId |-> U(1)],
     [teapotId |-> U(2), status |-> S("preparing"), limit |-> Q(<<"1">>)]}

SteepQueries ==
    {<<>>, [page |-> Q(<<"2">>), limit |-> Q(<<"1">>)], [page |-> Q(<<"a">>)]}

TeapotBrewQueries ==
    {<<>>,
     [page |-> Q(<<"1">>), limit |-> Q(<<"1">>)],
     [page |-> Q(<<"2">>), limit |-> Q(<<"1">>)],
     [limit |-> Q(<<"1", "0", "1">>)]}

NextList ==
    \/ \E body \in ListPostTeapotBodies, now \in Times :
          Fresh("teapot", MaxListTeapots) /\ PostTeapot(body, now)
    \/ \E id \in Uuids(MaxListTeapots) : DeleteTeapot(id)
    \/ \E now \in Times : Fresh("tea", MaxListTeas) /\ PostTea(TeaBody, now)
    \/ \E body \in ListPostBrewBodies, now \in Times :
          Fresh("brew", MaxListBrews) /\ PostBrew(body, now)
    \/ \E brewId \in ListSteepBrews, now \in Times :
          Fresh("steep", MaxListSteeps)
          /\ PostSteep(brewId, [durationSeconds |-> N(30)], now)
    \/ \E query \in TeapotQueries : GetTeapots(query)
    \/ \E query \in TeaQueries : GetTeas(query)
    \/ \E query \in BrewQueries : GetBrews(query)
    \/ \E brewId \in Uuids(2) \cup {InvalidUuid}, query \in SteepQueries :
          GetSteeps(brewId, query)
    \/ \E teapotId \in Uuids(MaxListTeapots) \cup {InvalidUuid},
          query \in TeapotBrewQueries : GetTeapotBrews(teapotId, query)

SpecList == Init /\ [][NextList]_vars

----------------------------------------------------------------------------
(* Properties of the list routes, under SpecList.                          *)

ListRoutes ==
    {"/teapots", "/teas", "/brews", "/brews/:brewId/steeps",
     "/teapots/:teapotId/brews"}

IsListRequest(r) ==
    /\ r.method = "GET"
    /\ r.route \in ListRoutes
    /\ "query" \in DOMAIN r

\* the entries of the store that agree with the query's filters
Matching(store, query, filters) ==
    SelectSeq(store, LAMBDA e : \A k \in filters \cap DOMAIN query : e[k] = query[k])

\* the sequence a list request is about: the store in insertion order, after
\* the filters of the query or the owner of the path
Listed(r) ==
    CASE r.route = "/teapots" -> Matching(teapots, r.query, {"material", "style"})
      [] r.route = "/teas" -> Matching(teas, r.query, {"type", "caffeineLevel"})
      [] r.route = "/brews" -> Matching(brews, r.query, {"status", "teapotId", "teaId"})
      [] r.route = "/brews/:brewId/steeps" ->
            SelectSeq(steeps, LAMBDA s : s.brewId = r.params.brewId)
      [] r.route = "/teapots/:teapotId/brews" ->
            SelectSeq(brews, LAMBDA b : b.teapotId = r.params.teapotId)

\* whether the owner in the path of a nested list route is stored
OwnerStored(r) ==
    CASE r.route = "/brews/:brewId/steeps" -> MapHas(brews, r.params.brewId)
      [] r.route = "/teapots/:teapotId/brews" -> MapHas(teapots, r.params.teapotId)
      [] OTHER -> TRUE

\* the number the query gives for page or limit, the default when absent
QueryNumber(query, key, default) ==
    IF key \in DOMAIN query THEN Number(query[key][2])
    ELSE [nan |-> FALSE, integer |-> TRUE, value |-> default]

IsIntegerIn(n, lo, hi) == ~n.nan /\ n.integer /\ n.value >= lo /\ n.value <= hi

\* page is an integer >= 1 and limit an integer in 1..100
ValidPaging(query) ==
    /\ ~QueryNumber(query, "page", 1).nan
    /\ QueryNumber(query, "page", 1).integer
    /\ QueryNumber(query, "page", 1).value >= 1
    /\ IsIntegerIn(QueryNumber(query, "limit", 20), 1, 100)

\* C13: a list request with a valid page p and limit L, over the sequence of
\* the N items left by its filters, is answered 200 with total = N,
\* totalPages = the least k with k * L >= N (0 when N = 0), and data = the
\* items at positions (p-1)*L+1 .. min(p*L, N) in order; beyond the last page
\* data is empty.
C13_ListPagination ==
    (IsListRequest(req) /\ OwnerStored(req) /\ ValidPaging(req.query))
    => LET items == Listed(req)
           n == Len(items)
           p == QueryNumber(req.query, "page", 1).value
           l == QueryNumber(req.query, "limit", 20).value
           pages == CHOOSE k \in 0..n : k * l >= n /\ (k = 0 \/ (k - 1) * l < n)
           from == (p - 1) * l
           count == IF n - from < 0 THEN 0 ELSE IF n - from < l THEN n - from ELSE l
       IN /\ res.status = 200
          /\ res.body.pagination =
                [page |-> N(p), limit |-> N(l), total |-> N(n), totalPages |-> N(pages)]
          /\ Len(res.body.data) = count
          /\ \A i \in 1..count : res.body.data[i] = items[from + i]
          /\ (p > pages => res.body.data = <<>>)

\* GET /brews?page=2&limit=2 over three brews: the second of two pages holds
\* the third brew alone
C13_Witness ==
    /\ IsListRequest(req)
    /\ req.route = "/brews"
    /\ req.query = [page |-> Q(<<"2">>), limit |-> Q(<<"2">>)]
    /\ Len(brews) = 3
    /\ res.status = 200
    /\ res.body.pagination.total = N(3)
    /\ res.body.pagination.totalPages = N(2)
    /\ res.body.data = <<brews[3]>>

\* the path parameter of a request that is not a uuid
MalformedId(r) ==
    \E k \in DOMAIN r.params : r.params[k][1] # "uuid"

\* C14 (as claimed): every request whose path parameter or query fails
\* validation is answered 400 VALIDATION_ERROR: a malformed id in the path,
\* and, on every list route (with a stored owner for the nested ones), a page
\* or a limit that is not a number or is out of range.
C14_InvalidInputIs400 ==
    (\/ MalformedId(req)
     \/ (IsListRequest(req) /\ OwnerStored(req) /\ ~ValidPaging(req.query)))
    => /\ res.status = 400
       /\ res.body.code = "VALIDATION_ERROR"

\* C20: GET /teapots/:teapotId/brews with a uuid that is not in the teapot
\* store is answered 404 NOT_FOUND "Teapot not found" (brews of a deleted
\* teapot may still be stored); with a stored teapot and a valid page and
\* limit it is answered 200 with total = the number of stored brews of that
\* teapot, every item of data one of them, and, when they fit on the page
\* asked for, data = exactly these brews in store order.
C20_TeapotBrews ==
    (IsListRequest(req) /\ req.route = "/teapots/:teapotId/brews"
     /\ req.params.teapotId[1] = "uuid")
    => LET id == req.params.teapotId
           mine == {i \in DOMAIN brews : brews[i].teapotId = id}
       IN IF ~MapHas(teapots, id)
          THEN /\ res.status = 404
               /\ res.body = [code |-> "NOT_FOUND", message |-> "Teapot not found"]
          ELSE ValidPaging(req.query)
               => /\ res.status = 200
                  /\ res.body.pagination.total = N(Cardinality(mine))
                  /\ \A k \in DOMAIN res.body.data :
                        \E i \in mine : res.body.data[k] = brews[i]
                  /\ \A k, l \in DOMAIN res.body.data :
                        k # l => res.body.data[k] # res.body.data[l]
                  /\ (req.query = <<>>)
                     => {res.body.data[k] : k \in DOMAIN res.body.data}
                           = {brews[i] : i \in mine}

\* the brews of teapot 1 were listed while a brew of teapot 2 is stored
\* between them: the two brews of teapot 1 are returned, and only they
C20_Witness ==
    /\ IsListRequest(req)
    /\ req.route = "/teapots/:teapotId/brews"
    /\ req.params.teapotId = U(1)
    /\ req.query = <<>>
    /\ res.status = 200
    /\ Len(brews) = 3
    /\ brews[2].teapotId = U(2)
    /\ res.body.data = <<brews[1], brews[3]>>
    /\ res.body.pagination.total = N(2)

\* C21: GET /brews/:brewId/steeps of a stored brew with n steeps, a valid
\* page p and limit L returns the steeps of that brew numbered (p-1)*L + 1
\* up to min(p*L, n), in this order, each of them a stored steep.
C21_SteepsByNumber ==
    (/\ IsListRequest(req)
     /\ req.route = "/brews/:brewId/steeps"
     /\ MapHas(brews, req.params.brewId)
     /\ ValidPaging(req.query))
    => LET n == Cardinality(SteepsOf(steeps, req.params.brewId))
           p == QueryNumber(req.query, "page", 1).value
           l == QueryNumber(req.query, "limit", 20).value
           last == IF p * l < n THEN p * l ELSE n
           numbers == [i \in 1..(last - (p - 1) * l) |-> N((p - 1) * l + i)]
       IN /\ res.status = 200
          /\ DOMAIN res.body.data = DOMAIN numbers
          /\ \A i \in DOMAIN res.body.data :
                /\ res.body.data[i].steepNumber = numbers[i]
                /\ res.body.data[i].brewId = req.params.brewId
                /\ res.body.data[i] \in SteepsOf(steeps, req.params.brewId)

\* the second page of one steep each of a brew with two steeps holds the
\* steep numbered 2
C21_Witness ==
    /\ IsListRequest(req)
    /\ req.route = "/brews/:brewId/steeps"
    /\ req.query = [page |-> Q(<<"2">>), limit |-> Q(<<"1">>)]
    /\ res.status = 200
    /\ Len(steeps) = 2
    /\ res.body.data = <<steeps[2]>>
    /\ res.body.data[1].steepNumber = N(2)
    /\ res.body.pagination.total = N(2)

\* the places of the store whose entity has, for every filter the query
\* carries, the value the query asks for
Matches(store, query, filters) ==
    {i \in DOMAIN store : \A k \in filters \cap DOMAIN query : store[i][k] = query[k]}

\* the filters of a flat list route
Filters(route) ==
    CASE route = "/teapots" -> {"material", "style"}
      [] route = "/teas" -> {"type", "caffeineLevel"}
      [] route = "/brews" -> {"status", "teapotId", "teaId"}

\* whether the sequence is the store's entities of the places, in store order
InStoreOrder(data, store, places) ==
    /\ Len(data) = Cardinality(places)
    /\ \A k \in DOMAIN data :
          \E i \in places :
             /\ data[k] = store[i]
             /\ Cardinality({j \in places : j < i}) = k - 1

\* C22: GET /teapots, GET /teas and GET /brews with a valid page and limit
\* count in pagination.total the stored entities that match every filter of
\* the query (all of them without a filter) and return only such entities;
\* when they fit on the first page, data is exactly these entities in the
\* order of the store.
C22_FiltersConjoined ==
    (/\ IsListRequest(req)
     /\ req.route \in {"/teapots", "/teas", "/brews"}
     /\ ValidPaging(req.query))
    => LET store == StoreOf(req.route \o "/:id", teapots, teas, brews)
           places == Matches(store, req.query, Filters(req.route))
       IN /\ res.status = 200
          /\ res.body.pagination.total = N(Cardinality(places))
          /\ \A k \in DOMAIN res.body.data :
                \E i \in places : res.body.data[k] = store[i]
          /\ (/\ QueryNumber(req.query, "page", 1).value = 1
              /\ QueryNumber(req.query, "limit", 20).value >= Cardinality(places))
             => InStoreOrder(res.body.data, store, places)

\* of a clay teapot of english style and a cast-iron one of kyusu style,
\* none is both cast-iron and english, though each filter alone matches one
C22_Witness ==
    /\ IsListRequest(req)
    /\ req.route = "/teapots"
    /\ req.query = [material |-> S("cast-iron"), style |-> S("english")]
    /\ res.status = 200
    /\ Len(teapots) = 2
    /\ teapots[1].material = S("cast-iron")
    /\ teapots[1].style = S("kyusu")
    /\ teapots[2].material = S("clay")
    /\ teapots[2].style = S("english")
    /\ res.body.data = <<>>
    /\ res.body.pagination.total = N(0)

\* the ids of the teapots that were deleted while brews made in them are
\* still stored
Orphaned ==
    {brews[i].teapotId : i \in DOMAIN brews} \ MapKeys(teapots)

\* C29: for a teapot that was deleted while brews that reference it are
\* stored, GET /teapots/:teapotId/brews answers 404, whereas GET /brews with
\* that teapotId as its only filter answers 200 with these brews.
C29_BrewsOfDeletedTeapot ==
    /\ (/\ IsListRequest(req)
        /\ req.route = "/teapots/:teapotId/brews"
        /\ req.params.teapotId \in Orphaned)
       => /\ res.status = 404
          /\ res.body.code = "NOT_FOUND"
    /\ (/\ IsListRequest(req)
        /\ req.route = "/brews"
        /\ DOMAIN req.query = {"teapotId"}
        /\ req.query.teapotId \in Orphaned)
       => /\ res.status = 200
          /\ res.body.data # <<>>
          /\ res.body.data =
                SelectSeq(brews, LAMBDA b : b.teapotId = req.query.teapotId)

\* teapot 1 was deleted, two brews made in it are stored, and
\* GET /brews?teapotId= of it returned both
C29_Witness ==
    /\ IsListRequest(req)
    /\ req.route = "/brews"
    /\ req.query = [teapotId |-> U(1)]
    /\ ~MapHas(teapots, U(1))
    /\ issued.teapot >= 1
    /\ res.status = 200
    /\ Len(res.body.data) = 2
    /\ \A k \in 1..2 : res.body.data[k].teapotId = U(1)

----------------------------------------------------------------------------
(* The order of the checks of PUT and PATCH, under Spec.                    *)

\* the schema the body of a PUT or PATCH of the route is validated with
BodySchema(method, route) ==
    CASE method = "PUT" /\ route = "/teapots/:id" -> UpdateTeapotSchema
      [] method = "PATCH" /\ route = "/teapots/:id" -> PatchTeapotSchema
      [] method = "PUT" /\ route = "/teas/:id" -> UpdateTeaSchema
      [] method = "PATCH" /\ route = "/teas/:id" -> PatchTeaSchema
      [] method = "PATCH" /\ route = "/brews/:id" -> PatchBrewSchema

\* C15: a PUT or PATCH of a teapot or a tea and a PATCH of a brew check the
\* id's format, then the existence, then the body: a malformed id is
\* answered 400 whatever the store and the body, a well-formed id that is not
\* stored 404 even with an invalid body, an invalid body 400 only for a
\* stored id; none of the three changes a store.
C15_IdThenExistenceThenBody ==
    [][(/\ req'.method \in {"PUT", "PATCH"}
        /\ req'.route \in {"/teapots/:id", "/teas/:id", "/brews/:id"})
        => LET id == req'.params.id
               stored == MapHas(StoreOf(req'.route, teapots, teas, brews), id)
               valid == ZIssues(BodySchema(req'.method, req'.route), req'.body) = {}
               rejected == <<teapots', teas', brews', steeps'>> =
                           <<teapots, teas, brews, steeps>>
           IN /\ id[1] # "uuid"
                 => /\ res'.status = 400
                    /\ res'.body.code = "VALIDATION_ERROR"
                    /\ "details" \notin DOMAIN res'.body
                    /\ rejected
              /\ (id[1] = "uuid" /\ ~stored)
                 => /\ res'.status = 404
                    /\ res'.body.code = "NOT_FOUND"
                    /\ rejected
              /\ (id[1] = "uuid" /\ stored /\ ~valid)
                 => /\ res'.status = 400
                    /\ res'.body.code = "VALIDATION_ERROR"
                    /\ res'.body.message = "Invalid request body"
                    /\ rejected
              /\ (id[1] = "uuid" /\ stored /\ valid) => res'.status = 200]_vars

\* a PUT of a teapot that was deleted, with a body that lacks required
\* fields, was answered 404
C15_Witness ==
    /\ IsRequest(req, "PUT", "/teapots/:id")
    /\ req.params.id = U(1)
    /\ req.body = [name |-> S("Kyusu")]
    /\ issued.teapot = 1
    /\ teapots = <<>>
    /\ res.status = 404
    /\ res.body = NotFound("Teapot not found")

\* C24: a stored steep never changes: across every step each stored steep
\* is either still stored, equal in every field and in the same order with
\* respect to the others, or it was removed by a successful DELETE of its
\* own brew; nothing else removes a steep.
C24_SteepsImmutable ==
    [][LET deleted == IF IsRequest(req', "DELETE", "/brews/:id") /\ res'.status = 204
                      THEN {req'.params.id} ELSE {}
           kept == SelectSeq(steeps, LAMBDA s : s.brewId \notin deleted)
       IN /\ Len(steeps') >= Len(kept)
          /\ SubSeq(steeps', 1, Len(kept)) = kept
          /\ \A i \in DOMAIN steeps :
                DOMAIN steeps[i] = {"id", "brewId", "steepNumber", "durationSeconds",
                                    "rating", "notes", "createdAt"}]_vars

\* the brew of the first steep was deleted: the steep is gone and the steeps
\* of the other brew are as they were
C24_Witness ==
    /\ IsRequest(req, "DELETE", "/brews/:id")
    /\ res.status = 204
    /\ req.params.id = U(1)
    /\ U(1) \in DOMAIN steepsCreated
    /\ steepsCreated[U(1)] >= 1
    /\ Len(steeps) = 2
    /\ \A i \in 1..2 : steeps[i].brewId = U(2) /\ steeps[i].steepNumber = N(i)

----------------------------------------------------------------------------
(* SpecBrew: the life of one brew.  Its tea is patched to another          *)
(* temperature before or after the brew is made; the brew is made with or  *)
(* without a waterTempCelsius, patched to every status, with and without a *)
(* completedAt, steeped, read and deleted, at instants up to MaxBrewTime.  *)

MaxBrewBrews == 1
MaxBrewSteeps == 1
MaxBrewTime == 1

BrewTimes == TimesTo(MaxBrewTime)

BrewPostBrewBodies ==
    {[teapotId |-> U(1), teaId |-> U(1)],
     [teapotId |-> U(1), teaId |-> U(1), waterTempCelsius |-> N(95),
      status |-> S("served"), completedAt |-> T(1), startedAt |-> T(9)]}

BrewPatchBrewBodies ==
    {[status |-> S(s)] : s \in BrewStatus}
    \cup {[status |-> S("cold"), notes |-> S("went cold")],
          [completedAt |-> T(1)], [completedAt |-> Null]}

NextBrew ==
    \/ \E now \in BrewTimes :
          Fresh("teapot", 1) /\ PostTeapot(TeapotBody, now)
    \/ \E now \in BrewTimes : Fresh("tea", 1) /\ PostTea(TeaBody, now)
    \/ \E now \in BrewTimes : PatchTea(U(1), [steepTempCelsius |-> N(90)], now)
    \/ \E body \in BrewPostBrewBodies, now \in BrewTimes :
          Fresh("brew", MaxBrewBrews) /\ PostBrew(body, now)
    \/ \E body \in BrewPatchBrewBodies, now \in BrewTimes :
          PatchBrew(U(1), body, now)
    \/ \E now \in BrewTimes :
          Fresh("steep", MaxBrewSteeps)
          /\ PostSteep(U(1), [durationSeconds |-> N(30)], now)
    \/ GetBrew(U(1))
    \/ DeleteBrew(U(1))

SpecBrew == Init /\ [][NextBrew]_vars

----------------------------------------------------------------------------
(* Properties of a brew's creation, status and completedAt, under          *)
(* SpecBrew.                                                               *)

\* C16: a successful POST /brews stores (and returns) a brew with status
\* "preparing" and completedAt null, whatever the body holds for them, with
\* startedAt = createdAt = updatedAt = the instant of the request, and with
\* the body's waterTempCelsius when the body has one, otherwise the
\* steepTempCelsius its tea has when the brew is made.
C16_NewBrewDefaults ==
    [][(IsRequest(req', "POST", "/brews") /\ res'.status = 201)
        => LET brew == brews'[Len(brews')]
               tea == MapGet(teas, req'.body.teaId)
           IN /\ brew = res'.body
              /\ brew.status = S("preparing")
              /\ brew.completedAt = Null
              /\ brew.startedAt = T(clock')
              /\ brew.createdAt = brew.startedAt
              /\ brew.updatedAt = brew.startedAt
              /\ brew.waterTempCelsius =
                    IF "waterTempCelsius" \in DOMAIN req'.body
                    THEN req'.body.waterTempCelsius
                    ELSE tea.steepTempCelsius]_vars

\* a brew made at instant 1 from a body without a waterTempCelsius, of a
\* tea made at instant 0 with 75 degrees and patched to 90 since
C16_Witness ==
    /\ IsRequest(req, "POST", "/brews")
    /\ res.status = 201
    /\ "waterTempCelsius" \notin DOMAIN req.body
    /\ brews = <<res.body>>
    /\ brews[1].status = S("preparing")
    /\ brews[1].completedAt = Null
    /\ brews[1].waterTempCelsius = N(90)
    /\ brews[1].startedAt = T(1)
    /\ brews[1].updatedAt = T(1)
    /\ teas[1].createdAt = T(0)
    /\ teas[1].steepTempCelsius = N(90)

\* C18: a PATCH of a stored brew with a body of status s, s any of the five
\* statuses, is answered 200 and the stored status becomes s, whatever the
\* status was: the same one, an earlier one or a later one.
C18_AnyStatusFromAnyStatus ==
    [][(/\ IsRequest(req', "PATCH", "/brews/:id")
        /\ MapHas(brews, req'.params.id)
        /\ "status" \in DOMAIN req'.body
        /\ req'.body.status \in {S(s) : s \in BrewStatus})
        => /\ MapGet(brews, req'.params.id).status \in {S(s) : s \in BrewStatus}
           /\ res'.status = 200
           /\ MapGet(brews', req'.params.id).status = req'.body.status
           /\ res'.body.status = req'.body.status]_vars

\* a brew that was patched to cold, with notes that say so, is preparing
\* again
C18_Witness ==
    /\ IsRequest(req, "PATCH", "/brews/:id")
    /\ req.body = [status |-> S("preparing")]
    /\ res.status = 200
    /\ Len(brews) = 1
    /\ brews[1].status = S("preparing")
    /\ brews[1].notes = S("went cold")
    /\ brews[1].updatedAt = T(1)

\* C19: a brew is stored with completedAt null, and the completedAt of a
\* stored brew changes only in a successful PATCH of that brew whose body
\* has a completedAt, to the value of the body; a PATCH without one, to
\* served or ready included, and every other request leave it as it is.
C19_CompletedAtOnlyByPatch ==
    [][/\ \A i \in DOMAIN brews' :
             ~MapHas(brews, brews'[i].id) => brews'[i].completedAt = Null
       /\ \A i \in DOMAIN brews :
             LET id == brews[i].id IN
             (MapHas(brews', id) /\ MapGet(brews', id).completedAt # brews[i].completedAt)
             => /\ IsRequest(req', "PATCH", "/brews/:id")
                /\ req'.params.id = id
                /\ res'.status = 200
                /\ "completedAt" \in DOMAIN req'.body
                /\ MapGet(brews', id).completedAt = req'.body.completedAt]_vars

\* a brew that was steeped and then patched to served, without a
\* completedAt, is served and not completed
C19_Witness ==
    /\ IsRequest(req, "PATCH", "/brews/:id")
    /\ req.body = [status |-> S("served")]
    /\ res.status = 200
    /\ Len(brews) = 1
    /\ Len(steeps) = 1
    /\ brews[1].status = S("served")
    /\ brews[1].completedAt = Null
    /\ res.body.completedAt = Null

----------------------------------------------------------------------------
(* SpecCreate: entities of the four types are created, from bodies that    *)
(* carry an id and timestamps of their own, and deleted, at instants up to *)
(* MaxCreateTime; a teapot is also patched.                                *)

MaxCreateTeapots == 2
MaxCreateTeas == 1
MaxCreateBrews == 2
MaxCreateSteeps == 2
MaxCreateTime == 1

CreateTimes == TimesTo(MaxCreateTime)

\* what a body may carry besides the fields of its schema
Forged == [id |-> U(1), createdAt |-> T(0), updatedAt |-> T(0)]

CreatePostTeapotBodies == {TeapotBody, Spread(TeapotBody, Forged)}

CreatePostBrewBodies ==
    {Spread([teapotId |-> tp, teaId |-> U(1)], Forged) :
        tp \in Uuids(MaxCreateTeapots)}

NextCreate ==
    \/ \E body \in CreatePostTeapotBodies, now \in CreateTimes :
          Fresh("teapot", MaxCreateTeapots) /\ PostTeapot(body, now)
    \/ \E now \in CreateTimes : PatchTeapot(U(1), <<>>, now)
    \/ \E id \in Uuids(MaxCreateTeapots) : DeleteTeapot(id)
    \/ \E now \in CreateTimes :
          Fresh("tea", MaxCreateTeas) /\ PostTea(Spread(TeaBody, Forged), now)
    \/ \E body \in CreatePostBrewBodies, now \in CreateTimes :
          Fresh("brew", MaxCreateBrews) /\ PostBrew(body, now)
    \/ \E id \in Uuids(MaxCreateBrews) : DeleteBrew(id)
    \/ \E brewId \in Uuids(MaxCreateBrews), now \in CreateTimes :
          Fresh("steep", MaxCreateSteeps)
          /\ PostSteep(brewId, Spread([durationSeconds |-> N(30)], Forged), now)

SpecCreate == Init /\ [][NextCreate]_vars

----------------------------------------------------------------------------
(* Properties of creation, under SpecCreate.                               *)

\* the store a POST of the route adds to
CreatedIn(route, tp, te, br, st) ==
    CASE route = "/teapots" -> tp
      [] route = "/teas" -> te
      [] route = "/brews" -> br
      [] route = "/brews/:brewId/steeps" -> st

\* the type of uuid a POST of the route draws
TypeOf(route) ==
    CASE route = "/teapots" -> "teapot"
      [] route = "/teas" -> "tea"
      [] route = "/brews" -> "brew"
      [] route = "/brews/:brewId/steeps" -> "steep"

\* C17: every id a store holds was drawn from uuidv4 (so the uuids drawn so
\* far cover every id an entity of the type ever held), and a successful
\* POST of a teapot, a tea, a brew or a steep gives the new entity an id
\* outside them, whatever id the body carries: the store grows by exactly
\* this entity, every other entry as it was; a new teapot, tea or brew has
\* createdAt = updatedAt.
C17_CreateAssignsFreshId ==
    [][/\ \A route \in {"/teapots", "/teas", "/brews", "/brews/:brewId/steeps"} :
             MapKeys(CreatedIn(route, teapots', teas', brews', steeps'))
                \subseteq Uuids(issued'[TypeOf(route)])
       /\ (req'.method = "POST" /\ res'.status = 201)
          => LET before == CreatedIn(req'.route, teapots, teas, brews, steeps)
                 after == CreatedIn(req'.route, teapots', teas', brews', steeps')
             IN /\ res'.body.id \notin Uuids(issued[TypeOf(req'.route)])
                /\ ~MapHas(before, res'.body.id)
                /\ after = Append(before, res'.body)
                /\ req'.route # "/brews/:brewId/steeps"
                   => /\ res'.body.createdAt = T(clock')
                      /\ res'.body.updatedAt = res'.body.createdAt]_vars

\* a second teapot made at instant 1 from a body that carries the id and the
\* timestamps of the first: the first is still stored and the new one has an
\* id and instants of its own
C17_Witness ==
    /\ IsRequest(req, "POST", "/teapots")
    /\ res.status = 201
    /\ "id" \in DOMAIN req.body
    /\ req.body.id = U(1)
    /\ Len(teapots) = 2
    /\ teapots[1].id = U(1)
    /\ teapots[1].createdAt = T(0)
    /\ teapots[2] = res.body
    /\ res.body.id = U(2)
    /\ res.body.createdAt = T(1)
    /\ res.body.updatedAt = T(1)

----------------------------------------------------------------------------
(* SpecAll: every route of the app, the 404 handler and the error handler, *)
(* over at most MaxAllIds entities of each type; every request comes with  *)
(* valid and with invalid path ids, bodies and queries.                    *)

MaxAllIds == 1

AllIds == Uuids(MaxAllIds) \cup {InvalidUuid}

AllQueries == {<<>>, [page |-> Q(<<"0">>)], [limit |-> Q(<<"a">>)]}

AllPostBrewBodies ==
    {[teapotId |-> U(1), teaId |-> U(1)],
     [teapotId |-> InvalidUuid, teaId |-> U(1)]}

NextAll ==
    \/ \E query \in AllQueries : GetTeapots(query)
    \/ \E body \in PostTeapotBodies, now \in Times :
          Fresh("teapot", MaxAllIds) /\ PostTeapot(body, now)
    \/ \E id \in AllIds : GetTeapot(id)
    \/ \E id \in AllIds, body \in PutTeapotBodies, now \in Times :
          PutTeapot(id, body, now)
    \/ \E id \in AllIds, body \in PatchTeapotBodies, now \in Times :
          PatchTeapot(id, body, now)
    \/ \E id \in AllIds : DeleteTeapot(id)
    \/ \E query \in AllQueries : GetTeas(query)
    \/ \E body \in PostTeaBodies, now \in Times :
          Fresh("tea", MaxAllIds) /\ PostTea(body, now)
    \/ \E id \in AllIds : GetTea(id)
    \/ \E id \in AllIds, body \in PutTeaBodies, now \in Times :
          PutTea(id, body, now)
    \/ \E id \in AllIds, body \in PatchTeaBodies, now \in Times :
          PatchTea(id, body, now)
    \/ \E id \in AllIds : DeleteTea(id)
    \/ \E query \in AllQueries : GetBrews(query)
    \/ \E body \in AllPostBrewBodies, now \in Times :
          Fresh("brew", MaxAllIds) /\ PostBrew(body, now)
    \/ \E id \in AllIds : GetBrew(id)
    \/ \E id \in AllIds, body \in PatchBrewBodies, now \in Times :
          PatchBrew(id, body, now)
    \/ \E id \in AllIds : DeleteBrew(id)
    \/ \E brewId \in AllIds, query \in AllQueries : GetSteeps(brewId, query)
    \/ \E brewId \in AllIds, body \in PostSteepBodies, now \in Times :
          Fresh("steep", MaxAllIds) /\ PostSteep(brewId, body, now)
    \/ \E teapotId \in AllIds, query \in AllQueries :
          GetTeapotBrews(teapotId, query)
    \/ \E now \in Times : GetHealth(now)
    \/ GetHealthLive
    \/ \E now \in Times : GetHealthReady(now)
    \/ GetBrewSignature
    \/ \E method \in {"GET", "DELETE"} : NoRoute(method, "/coffee")
    \/ \E route \in {"/teapots", "/brews/:brewId/steeps"} :
          MalformedJson("POST", route)

SpecAll == Init /\ [][NextAll]_vars

----------------------------------------------------------------------------
(* Properties of every route, under SpecAll.                               *)

\* C25 (as claimed): every 400, 404 and 500 response body has a code and a
\* message, both strings, and nothing else but an optional details, which
\* maps each field name to a single string.
C25_ErrorBodyShape ==
    res.status \in {400, 404, 500}
    => /\ {"code", "message"} \subseteq DOMAIN res.body
       /\ DOMAIN res.body \subseteq {"code", "message", "details"}
       /\ Len(res.body.code) > 0
       /\ Len(res.body.message) > 0
       /\ "details" \in DOMAIN res.body
          => \A field \in DOMAIN res.body.details :
                res.body.details[field][1] = "str"

\* C26: every GET request, and every request of any method that is answered
\* 400, 404 or 500, leaves the four stores exactly as they were.
C26_ReadsAndErrorsChangeNothing ==
    [][(req'.method = "GET" \/ res'.status \in {400, 404, 500})
        => /\ teapots' = teapots
           /\ teas' = teas
           /\ brews' = brews
           /\ steeps' = steeps]_vars

\* a PATCH of a stored brew was refused for its body, with a teapot, a tea,
\* a brew and a steep stored
C26_Witness ==
    /\ IsRequest(req, "PATCH", "/brews/:id")
    /\ req.params = [id |-> U(1)]
    /\ req.body = [status |-> S("boiling")]
    /\ res.status = 400
    /\ "details" \in DOMAIN res.body
    /\ Len(teapots) = 1
    /\ Len(teas) = 1
    /\ Len(brews) = 1
    /\ Len(steeps) = 1

----------------------------------------------------------------------------
(* SpecLife: up to MaxLifeIds teapots, teas and brews are created, read,   *)
(* listed, replaced, patched and deleted, in any order, with valid bodies. *)

MaxLifeIds == 2

LifeIds == Uuids(MaxLifeIds)

LifePutTeapotBody ==
    [name |-> S("Pot"), material |-> S("clay"), capacityMl |-> N(350),
     style |-> S("english"), description |-> Null]

LifePutTeaBody ==
    [name |-> S("Cha"), type |-> S("green"), caffeineLevel |-> S("medium"),
     steepTempCelsius |-> N(75), steepTimeSeconds |-> N(120),
     description |-> Null]

NextLife ==
    \/ \E now \in Times : Fresh("teapot", MaxLifeIds) /\ PostTeapot(TeapotBody, now)
    \/ \E id \in LifeIds : GetTeapot(id)
    \/ GetTeapots(<<>>)
    \/ \E id \in LifeIds, now \in Times : PutTeapot(id, LifePutTeapotBody, now)
    \/ \E id \in LifeIds, now \in Times : PatchTeapot(id, [name |-> S("Pot")], now)
    \/ \E id \in LifeIds : DeleteTeapot(id)
    \/ \E now \in Times : Fresh("tea", MaxLifeIds) /\ PostTea(TeaBody, now)
    \/ \E id \in LifeIds : GetTea(id)
    \/ GetTeas(<<>>)
    \/ \E id \in LifeIds, now \in Times : PutTea(id, LifePutTeaBody, now)
    \/ \E id \in LifeIds, now \in Times : PatchTea(id, [name |-> S("Cha")], now)
    \/ \E id \in LifeIds : DeleteTea(id)
    \/ \E now \in Times :
          Fresh("brew", MaxLifeIds)
          /\ PostBrew([teapotId |-> U(1), teaId |-> U(1)], now)
    \/ \E id \in LifeIds : GetBrew(id)
    \/ GetBrews(<<>>)
    \/ \E id \in LifeIds, now \in Times : PatchBrew(id, [status |-> S("ready")], now)
    \/ \E id \in LifeIds : DeleteBrew(id)

SpecLife == Init /\ [][NextLife]_vars

----------------------------------------------------------------------------
(* Properties of deletion and of the order of a store, under SpecLife.     *)

ByIdRoutes == {"/teapots/:id", "/teas/:id", "/brews/:id"}

\* the uuids drawn so far for the entities of a route /<resource>/:id
IssuedFor(route) ==
    CASE route = "/teapots/:id" -> Uuids(issued.teapot)
      [] route = "/teas/:id" -> Uuids(issued.tea)
      [] route = "/brews/:id" -> Uuids(issued.brew)

\* the ids of the route that were deleted: every id that was drawn was
\* stored, so the deleted ones are those that are stored no more
Deleted(route) ==
    IssuedFor(route) \ MapKeys(StoreOf(route, teapots, teas, brews))

\* C23: a DELETE of a teapot, a tea or a brew that is answered 204 removes
\* the id from the store; an id that was deleted is in the store in no later
\* state, whatever is created, and GET, PUT, PATCH and DELETE on it are
\* answered 404.
C23_DeletedStaysDeleted ==
    [][/\ \A route \in ByIdRoutes :
             Deleted(route) \cap MapKeys(StoreOf(route, teapots', teas', brews')) = {}
       /\ (req'.method = "DELETE" /\ req'.route \in ByIdRoutes /\ res'.status = 204)
          => /\ MapHas(StoreOf(req'.route, teapots, teas, brews), req'.params.id)
             /\ ~MapHas(StoreOf(req'.route, teapots', teas', brews'), req'.params.id)
       /\ (/\ req'.method \in {"GET", "PUT", "PATCH", "DELETE"}
           /\ req'.route \in ByIdRoutes
           /\ req'.params.id \in Deleted(req'.route))
          => /\ res'.status = 404
             /\ res'.body.code = "NOT_FOUND"]_vars

\* teapot 1 was deleted and teapot 2 made since: a PUT of teapot 1 is
\* answered 404 and the store holds teapot 2 alone
C23_Witness ==
    /\ IsRequest(req, "PUT", "/teapots/:id")
    /\ req.params.id = U(1)
    /\ res.status = 404
    /\ issued.teapot = 2
    /\ Len(teapots) = 1
    /\ teapots[1].id = U(2)


\* the ids of a store, in the order of the store
IdsOf(m) == [i \in 1..Len(m) |-> m[i].id]

\* the entries stand in the order of their creation: the uuids are drawn
\* one after the other, so the earlier entity has the lower number
InCreationOrder(m) ==
    \A i, j \in 1..Len(m) : i < j => m[i].id[2] < m[j].id[2]

CollectionRoutes == {"/teapots", "/teas", "/brews"}

\* C30: a PUT or PATCH that is answered 200 keeps every entity at its place
\* in the store; each store holds its entities in the order of their
\* creation, and the list without filters returns them in that order.
C30_UpdateKeepsListOrder ==
    [][/\ (/\ req'.method \in {"PUT", "PATCH"}
           /\ req'.route \in ByIdRoutes
           /\ res'.status = 200)
          => /\ IdsOf(teapots') = IdsOf(teapots)
             /\ IdsOf(teas') = IdsOf(teas)
             /\ IdsOf(brews') = IdsOf(brews)
             /\ MapGet(StoreOf(req'.route, teapots', teas', brews'),
                       req'.params.id) = res'.body
       /\ InCreationOrder(teapots')
       /\ InCreationOrder(teas')
       /\ InCreationOrder(brews')
       /\ (/\ req'.method = "GET"
           /\ req'.route \in CollectionRoutes
           /\ res'.status = 200)
          => res'.body.data
               = StoreOf(req'.route \o "/:id", teapots', teas', brews')]_vars

\* teapot 1 is patched while teapot 2 stands after it in the store, and
\* stays first
C30_Witness ==
    /\ IsRequest(req, "PATCH", "/teapots/:id")
    /\ req.params.id = U(1)
    /\ res.status = 200
    /\ Len(teapots) = 2
    /\ teapots[1].id = U(1)
    /\ teapots[1].name = S("Pot")
    /\ teapots[2].id = U(2)
    /\ teapots[2].name = S("Kyusu")


----------------------------------------------------------------------------
(* The temperatures.  SpecTemp: a teapot and a tea are made, replaced and   *)
(* patched and brews are made, with temperatures at, below and above the   *)
(* limits of the schemas and with a number that is no integer.             *)

MaxTempIds == 1
MaxTempBrews == 2

TempIds == Uuids(MaxTempIds)

Temperatures == {N(59), N(60), N(100), N(101), Half(75)}

\* a brew with a temperature of its own carries a note, one that takes the
\* temperature of its tea carries none
TempPostBrewBodies ==
    {[teapotId |-> U(1), teaId |-> U(1)]}
    \cup {[teapotId |-> U(1), teaId |-> U(1), waterTempCelsius |-> t,
           notes |-> S("measured")] : t \in Temperatures}

NextTemp ==
    \/ \E now \in Times : Fresh("teapot", MaxTempIds) /\ PostTeapot(TeapotBody, now)
    \/ \E id \in TempIds, now \in Times : PutTeapot(id, TeapotUpdate, now)
    \/ \E id \in TempIds, now \in Times :
          PatchTeapot(id, [material |-> S("glass")], now)
    \/ \E t \in Temperatures, now \in Times :
          Fresh("tea", MaxTempIds)
          /\ PostTea([TeaBody EXCEPT !.steepTempCelsius = t], now)
    \/ \E id \in TempIds, t \in Temperatures, now \in Times :
          PutTea(id, [TeaUpdate EXCEPT !.steepTempCelsius = t], now)
    \/ \E id \in TempIds, t \in Temperatures, now \in Times :
          PatchTea(id, [steepTempCelsius |-> t], now)
    \/ \E body \in TempPostBrewBodies, now \in Times :
          Fresh("brew", MaxTempBrews) /\ PostBrew(body, now)
    \/ \E id \in Uuids(MaxTempBrews), now \in Times :
          PatchBrew(id, [status |-> S("ready"), waterTempCelsius |-> N(101)], now)

SpecTemp == Init /\ [][NextTemp]_vars

----------------------------------------------------------------------------
(* Properties of the temperatures, under SpecTemp.                         *)

\* an integer from 60 to 100
IsTemperature(v) == v[1] = "num" /\ v[2] >= 60 /\ v[2] <= 100

\* C27: every stored tea has an integer steepTempCelsius from 60 to 100,
\* through create, PUT and PATCH, and every stored brew has an integer
\* waterTempCelsius from 60 to 100, whether it was given or taken from the
\* tea.
C27_TemperaturesInRange ==
    /\ \A i \in 1..Len(teas) : IsTemperature(teas[i].steepTempCelsius)
    /\ \A i \in 1..Len(brews) : IsTemperature(brews[i].waterTempCelsius)

\* a brew made without a temperature took the 100 degrees that its tea was
\* patched to
C27_Witness ==
    /\ IsRequest(req, "POST", "/brews")
    /\ "waterTempCelsius" \notin DOMAIN req.body
    /\ res.status = 201
    /\ res.body.waterTempCelsius = N(100)
    /\ MapGet(teas, res.body.teaId).steepTempCelsius = N(100)
    /\ MapGet(brews, res.body.id) = res.body

\* C28: a PUT or PATCH of a tea or of a teapot that is answered 200 leaves
\* the store of the brews as it was: a brew that took its waterTempCelsius
\* from the tea keeps it when the steepTempCelsius of the tea changes.
C28_UpdatesLeaveBrews ==
    [][(/\ req'.method \in {"PUT", "PATCH"}
        /\ req'.route \in {"/teapots/:id", "/teas/:id"}
        /\ res'.status = 200)
       => brews' = brews]_vars

\* the tea is patched from 60 to 100 degrees and its brew, made without a
\* temperature of its own, stays at 60
C28_Witness ==
    /\ IsRequest(req, "PATCH", "/teas/:id")
    /\ res.status = 200
    /\ res.body.steepTempCelsius = N(100)
    /\ Len(brews) >= 1
    /\ brews[1].teaId = res.body.id
    /\ brews[1].notes = Null
    /\ brews[1].waterTempCelsius = N(60)

=============================================================================
